---------------------------- MODULE Spec2Model ----------------------------
(***************************************************************************)
(* Discord-Chat-Forwarder: the window scheduler                            *)
(* (Loop_Forward/orchestrate_one.py), the forwarder                        *)
(* (Loop_Forward/forward_loop.py), post_webhook, get_file,                 *)
(* forward_message and main of the one-shot forwarder                      *)
(* (Forward_Once/forward_once.py), and the one-shot exporter that runs it  *)
(* (Forward_Once/export_once.py).                                          *)
(*                                                                         *)
(* Time is counted in ticks.  One unit of Unit ticks stands for the        *)
(* resolution that iso_z keeps (it drops the sub-second part of a          *)
(* datetime); window, overlap and the safety margin are whole numbers of   *)
(* units, as minutes are whole numbers of seconds.                         *)
(***************************************************************************)
EXTENDS Integers, Sequences, FiniteSets, TLC

VARIABLES
    \* ---- orchestrate_one.py ----
    progress_file,   \* progress.json: <<>> (no last_before_iso) or <<iso>>
    clock,           \* the wall clock, never decreasing
    opc,             \* where orchestrate_one.main is
    window,          \* --window-min, in ticks
    overlap,         \* --overlap-min, in ticks
    target_before,   \* now - 1 minute
    last_before,     \* main's local last_before
    after_dt,        \* current window
    before_dt,
    artifacts,       \* number of *.json export files in export_dir
    h_inv,           \* history of the current invocation
    h_win,           \* history of the current window
    h_cover,         \* history: the last two successfully executed windows
    h_prev_abort,    \* history: checkpoint left by an aborted invocation
    \* ---- forward_loop.py ----
    state_file,      \* state.json: the keys of seen_ids
    id_map_file,     \* id_map.json: source id -> destination id
    next_dest,       \* the destination: id of the next message it creates
    fpc,             \* where forward_loop.main is
    normalized,      \* main's normalized
    id_index,        \* main's id_index
    seen,            \* main's seen
    id_map,          \* main's id_map
    pos,             \* index of the loop over normalized
    cur,             \* locals of the running forward_one_message
    reqs,            \* the webhook POSTs of the current run, in order
    h_accepted,      \* history: accepted primary posts per source id
                     \* (0, 1, or 2 for more than one)
    h_start,         \* history: the stores as the current run loaded them
    h_crash,         \* history: the last run, if it was terminated: what it
                     \* read from its artifact, the ids whose primary post
                     \* was accepted, and whether the current run reads the
                     \* same artifact again
    \* ---- forward_once.py: post_webhook ----
    ppc,             \* where post_webhook is
    tries,           \* post_webhook's tries
    plog,            \* history: what each session.post of the call gave
    presult,         \* the response post_webhook returned, if it returned
    \* ---- save_json, save_progress ----
    fs,              \* the files: path -> content
    wpc,             \* where the running save is
    wpath,           \* the path it saves to
    wdata,           \* the data it saves
    h_old,           \* history: the content of wpath when the save began
    \* ---- forward_loop.py: the command line ----
    max_files_per_post,  \* --max-files-per-post
    \* ---- forward_once.py: forward_message, get_file ----
    once,            \* the arguments and locals of forward_message, and
                     \* history: the posts it made
    getf,            \* the locals of get_file, and history: what each
                     \* session.get of the call gave
    \* ---- runs looked at on their own ----
    h_art,           \* history: the records forward_loop.main read
    om,              \* forward_once.py: the locals of main, and history:
                     \* the forward_message calls it made
    xo,              \* export_once.py: the locals of main
    xfs              \* export_once.py: the files under --state-dir and
                     \* --export-dir

schedVars == <<progress_file, clock, opc, window, overlap, target_before,
               last_before, after_dt, before_dt, artifacts,
               h_inv, h_win, h_cover, h_prev_abort>>

fwdVars == <<state_file, id_map_file, next_dest, fpc, normalized, id_index,
             seen, id_map, pos, cur, reqs, h_accepted, h_start,
             h_crash>>

postVars == <<ppc, tries, plog, presult>>

saveVars == <<fs, wpc, wpath, wdata, h_old>>

argVars == <<max_files_per_post>>

onceVars == <<once, getf>>

runVars == <<h_art, om, xo, xfs>>

vars == <<schedVars, fwdVars, postVars, saveVars, argVars, onceVars, runVars>>

----------------------------------------------------------------------------
(* Bounds of the model *)

Unit == 2            \* ticks per unit (the part iso_z drops is t % Unit)
MaxNow == 8          \* the clock runs over MaxBack..MaxBack+MaxNow
MaxWindowMin == 2    \* --window-min ranges over 1..MaxWindowMin
MaxOverlapMin == 2   \* --overlap-min ranges over 0..MaxOverlapMin
MaxBack == 10        \* ticks before the first clock reading; no window
                     \* of the model starts before tick 0
Retention == 2       \* --retention
MaxArtifacts == 3    \* artifacts counts up to MaxArtifacts ("or more")
MaxLen == 2          \* records in one artifact
MaxDest == 3         \* messages the destination creates
ChunkLimit == 3      \* chunk_text's limit (1900), in tokens
SizeCap == 1         \* --max-attach-mb, in size units
MaxFilesPerPost == 1 \* --max-files-per-post, where it is not an input
MaxData == 1         \* the data a save writes ranges over 0..MaxData
Pieces == 2          \* writes it takes to put the data in a file
NormLen == 3         \* records in one artifact, where one run is looked at
LogLen == 3          \* messages in the channel of the one-shot pair
OnceLen == 3         \* records in an artifact forward_once.py is run on
FirstNow == 6        \* the clock of export_once.py runs over
LastNow == 7         \* FirstNow..LastNow
EdgeOverlap == 1     \* --edge-overlap-seconds
Lookback == 6        \* the 14 days of the first run's lookback

----------------------------------------------------------------------------
(* orchestrate_one.py *)

\* iso_z: astimezone(utc).replace(microsecond=0).isoformat(); the string is
\* modelled by the number of whole units it spells
iso_z(t) == (t - (t % Unit)) \div Unit

\* datetime.fromisoformat(last_before_iso.replace("Z", "+00:00"))
fromisoformat(s) == s * Unit

\* timedelta(minutes=k)
Minutes(k) == k * Unit

Min(a, b) == IF a <= b THEN a ELSE b

\* the safety margin of line 85: timedelta(minutes=1)
Margin == Minutes(1)

\* load_progress(path).get("last_before_iso")
load_progress == progress_file

\* lines 104-105: the window the loop would run from last_before
WindowAfter(lb) == lb - overlap
WindowBefore(lb) == Min(WindowAfter(lb) + window, target_before)

\* line 106: the loop's exit test
NoWindowLeft(lb) == WindowBefore(lb) <= WindowAfter(lb)

\* line 131: the exporter failed
ExporterFailed(rc) == rc # 0

\* a faulty ForwarderFailed: the forwarder's exit code is ignored
ForwarderFailed_Ignored(rc2) == FALSE

\* line 152: the forwarder failed
ForwarderFailed(rc2) == rc2 # 0

\* line 164: caught up, leave the loop
CaughtUp(lb) == lb >= target_before

\* where the slices lst[:n] and lst[n:] cut a list of length len
SliceAt(len, n) ==
    IF n >= 0 THEN Min(n, len)
    ELSE IF len + n > 0 THEN len + n ELSE 0

\* enforce_retention, lines 29-32, where every unlink succeeds: the export
\* files left of n.  The *.json files of export_dir are the n export files
\* and id_map.json (line 136), which the forwarder has just written
\* (forward_loop.py line 453) and which so comes first in files; what
\* files[:keep] leaves, less id_map.json when it is among them
enforce_retention(n, keep) ==
    IF SliceAt(n + 1, keep) > 0 THEN SliceAt(n + 1, keep) - 1 ELSE 0

NoInv == [caught_up |-> FALSE, exported |-> FALSE, forwarded |-> FALSE,
          all_ok |-> TRUE, aborted |-> FALSE]
NoWin == [marker0 |-> <<>>, failed |-> "no", fwd |-> FALSE, stuck |-> 0]

InitSched ==
    /\ progress_file = <<>>
    /\ clock = MaxBack
    /\ opc = "idle"
    /\ window \in {Minutes(w) : w \in 1..MaxWindowMin}
    /\ overlap \in {Minutes(o) : o \in 0..MaxOverlapMin}
    /\ target_before = 0
    /\ last_before = 0
    /\ after_dt = 0
    /\ before_dt = 0
    /\ artifacts = 0
    /\ h_inv = NoInv
    /\ h_win = NoWin
    /\ h_cover = [prev |-> <<>>, cur |-> <<>>]
    /\ h_prev_abort = <<>>

\* lines 82-101: load the checkpoint, read the clock, derive last_before
SchedStart(n) ==
    /\ opc = "idle"
    /\ n >= clock
    /\ clock' = n
    /\ LET tb == n - Margin
           lbi == load_progress
           lb == IF lbi # <<>> THEN fromisoformat(lbi[1])
                 ELSE tb - (window - overlap)
       IN /\ target_before' = tb
          /\ last_before' = lb
          /\ h_inv' = [NoInv EXCEPT !.caught_up = (lbi # <<>> /\ lb = tb)]
    /\ opc' = "loop"
    /\ h_win' = NoWin
    /\ UNCHANGED <<progress_file, window, overlap, after_dt, before_dt,
                   artifacts, h_cover, h_prev_abort>>
    /\ UNCHANGED <<fwdVars, postVars, saveVars, argVars, onceVars, runVars>>

\* lines 104-107: no window left, leave the loop
SchedBreak ==
    /\ opc = "loop"
    /\ NoWindowLeft(last_before)
    /\ after_dt' = WindowAfter(last_before)
    /\ before_dt' = WindowBefore(last_before)
    /\ opc' = "end"
    /\ UNCHANGED <<progress_file, clock, window, overlap, target_before,
                   last_before, artifacts, h_inv, h_win, h_cover,
                   h_prev_abort>>
    /\ UNCHANGED <<fwdVars, postVars, saveVars, argVars, onceVars, runVars>>

\* lines 104-133: a window is left; run the exporter on it
SchedExport(rc, fresh) ==
    /\ opc = "loop"
    /\ ~NoWindowLeft(last_before)
    /\ WindowAfter(last_before) >= 0
    /\ after_dt' = WindowAfter(last_before)
    /\ before_dt' = WindowBefore(last_before)
    /\ h_win' = [marker0 |-> progress_file,
                 failed |-> IF rc # 0 THEN "export" ELSE "no",
                 fwd |-> FALSE, stuck |-> 0]
    /\ h_inv' = [h_inv EXCEPT !.exported = TRUE,
                              !.all_ok = (h_inv.all_ok /\ rc = 0),
                              !.aborted = (rc # 0)]
    /\ IF ExporterFailed(rc)
       THEN /\ opc' = "end"
            /\ UNCHANGED artifacts
       ELSE /\ opc' = "forward"
            \* out_json is named by the wall-clock second: a second export
            \* in the same second overwrites the file of the first
            /\ artifacts' = IF fresh \/ artifacts = 0
                            THEN Min(artifacts + 1, MaxArtifacts)
                            ELSE artifacts
    /\ h_prev_abort' = <<>>
    /\ UNCHANGED <<progress_file, clock, window, overlap, target_before,
                   last_before, h_cover>>
    /\ UNCHANGED <<fwdVars, postVars, saveVars, argVars, onceVars, runVars>>

\* lines 135-165: run the forwarder on the artifact; on success advance the
\* checkpoint, prune the artifacts, and test whether the loop is done;
\* stuck is the number of files whose unlink raised (lines 33-36)
SchedForwardStep(rc2, stuck) ==
    /\ opc = "forward"
    /\ stuck >= 0
    /\ stuck <= IF ForwarderFailed(rc2) THEN 0
                ELSE artifacts - enforce_retention(artifacts, Retention)
    /\ h_inv' = [h_inv EXCEPT !.forwarded = TRUE,
                              !.all_ok = (h_inv.all_ok /\ rc2 = 0),
                              !.aborted = (rc2 # 0)]
    /\ h_win' = [h_win EXCEPT !.fwd = TRUE, !.stuck = stuck,
                              !.failed = IF rc2 # 0 THEN "forward" ELSE "no"]
    /\ IF ForwarderFailed(rc2)
       THEN /\ opc' = "end"
            /\ UNCHANGED <<progress_file, last_before, artifacts, h_cover>>
       ELSE /\ progress_file' = <<iso_z(before_dt)>>
            /\ artifacts' = enforce_retention(artifacts, Retention) + stuck
            /\ last_before' = before_dt
            /\ opc' = IF CaughtUp(before_dt) THEN "end" ELSE "loop"
            /\ h_cover' = [prev |-> IF h_cover.cur = <<>> THEN <<>>
                                    ELSE <<h_cover.cur[2]>>,
                           cur |-> <<after_dt, before_dt>>]
    /\ UNCHANGED <<clock, window, overlap, target_before, after_dt,
                   before_dt, h_prev_abort>>

\* lines 135-165, the forwarder being a child process seen by its exit code
SchedForward(rc2, stuck) ==
    /\ SchedForwardStep(rc2, stuck)
    /\ UNCHANGED <<fwdVars, postVars, saveVars, argVars, onceVars, runVars>>

\* line 167: the process ends
SchedExit ==
    /\ opc = "end"
    /\ opc' = "idle"
    /\ h_prev_abort' = IF h_inv.aborted THEN <<h_win.marker0>> ELSE <<>>
    /\ UNCHANGED <<progress_file, clock, window, overlap, target_before,
                   last_before, after_dt, before_dt, artifacts, h_inv,
                   h_win, h_cover>>
    /\ UNCHANGED <<fwdVars, postVars, saveVars, argVars, onceVars, runVars>>

\* the steps of a running invocation
SchedRun ==
    \/ SchedBreak
    \/ \E rc \in {0, 1}, fresh \in BOOLEAN : SchedExport(rc, fresh)
    \/ \E rc2 \in {0, 1}, stuck \in 0..MaxArtifacts : SchedForward(rc2, stuck)
    \/ SchedExit

SchedNext ==
    \/ \E n \in MaxBack..(MaxBack + MaxNow) : SchedStart(n)
    \/ SchedRun

----------------------------------------------------------------------------
(* forward_loop.py: text *)

(* A text is a sequence of tokens, each counted as one character:          *)
(* "a" "b" "c" body characters, " " a blank, "NL" a newline;               *)
(* "Qp" "Qi" the quote line built from the exporter's preview or from      *)
(* id_index, "Qu" the quote line built from neither, which reads           *)
(* > Quote unknown: ""; "J" the jump-url line; "L1" "L2" the               *)
(* "[Attachment too large] <url>" line of attachment 1, 2; "[no text]".    *)

IsSpace(t) == t \in {" ", "NL"}

RECURSIVE lstrip(_)
lstrip(s) == IF s # <<>> /\ IsSpace(Head(s)) THEN lstrip(Tail(s)) ELSE s

RECURSIVE rstrip(_)
rstrip(s) ==
    IF s # <<>> /\ IsSpace(s[Len(s)])
    THEN rstrip(SubSeq(s, 1, Len(s) - 1))
    ELSE s

\* str.strip()
strip(s) == rstrip(lstrip(s))

RECURSIVE chunk_from(_, _, _)
chunk_from(s, i, limit) ==
    IF i > Len(s) THEN <<>>
    ELSE <<SubSeq(s, i, Min(i + limit - 1, Len(s)))>>
         \o chunk_from(s, i + limit, limit)

\* chunk_text: pieces of `limit` characters; one empty piece for no text
chunk_text(s, limit) ==
    IF s = <<>> THEN << <<>> >> ELSE chunk_from(s, 1, limit)

RECURSIVE batch_from(_, _, _)
batch_from(lst, i, n) ==
    IF i > Len(lst) THEN <<>>
    ELSE <<SubSeq(lst, i, Min(i + n - 1, Len(lst)))>>
         \o batch_from(lst, i + n, n)

\* batch_list: [lst[i:i+n] for i in range(0, len(lst), n)]; the range is
\* empty for a negative n (and raises for n = 0, see BatchListRaises)
batch_list(lst, n) == IF n > 0 THEN batch_from(lst, 1, n) ELSE <<>>

\* range(0, len(lst), 0) raises ValueError
BatchListRaises(lst, n) == n = 0

----------------------------------------------------------------------------
(* forward_loop.py: the exported records and their normalization *)

\* an exported record; id 0 is a record with no id, reference /
\* referencedMessage / repliesTo 0 an absent key; an attachment is its
\* size hint (0: none given), its url being its place in the list
Rec(id, ts, content, reference, refmsg, atts, url) ==
    [id |-> id, timestamp |-> ts, content |-> content,
     reference |-> reference, referencedMessage |-> refmsg, repliesTo |-> 0,
     attachments |-> atts, embeds |-> FALSE, url |-> url]

\* the records an artifact is made of
Records ==
    { \* a long message
      Rec(1, 1, <<"a", "b", "c", "a">>, 0, 0, <<>>, FALSE),
      \* a reply to 1 that carries the exporter's snapshot of it
      Rec(2, 2, <<" ", "b">>, 0, 1, <<>>, TRUE),
      \* a message with no text and two attachments
      Rec(3, 2, <<>>, 0, 0, <<SizeCap, SizeCap>>, FALSE),
      \* a record with no id
      Rec(0, 1, <<"c">>, 0, 0, <<>>, FALSE) }

Ids == {r.id : r \in Records} \ {0}

Artifacts == UNION {[1..n -> Records] : n \in 0..MaxLen}

\* extract_reply_reference: reference, then referencedMessage, then repliesTo
extract_reply_reference(msg) ==
    IF msg.reference # 0 THEN msg.reference
    ELSE IF msg.referencedMessage # 0 THEN msg.referencedMessage
    ELSE IF msg.repliesTo # 0 THEN msg.repliesTo
    ELSE 0

\* normalize_message (username and avatar_url are copied to every payload
\* and decide nothing; they are left out)
normalize_message(msg) ==
    [id |-> msg.id,
     timestamp |-> msg.timestamp,
     content |-> msg.content,
     attachments |-> [i \in 1..Len(msg.attachments) |->
                        [url |-> i, size_hint |-> msg.attachments[i]]],
     embeds |-> msg.embeds,
     reply_to_id |-> extract_reply_reference(msg),
     reply_preview |-> msg.referencedMessage # 0,
     jump_url |-> msg.url]

\* build_id_index: the ids of the records that have one
build_id_index(msgs) == {msgs[i].id : i \in DOMAIN msgs} \ {0}

\* the sort key of line 413: (timestamp, id)
KeyLE(a, b) ==
    \/ a.timestamp < b.timestamp
    \/ a.timestamp = b.timestamp /\ a.id <= b.id

RECURSIVE insert_sorted(_, _)
insert_sorted(s, x) ==
    IF s = <<>> THEN <<x>>
    ELSE IF KeyLE(s[Len(s)], x) THEN Append(s, x)
    ELSE Append(insert_sorted(SubSeq(s, 1, Len(s) - 1), x), s[Len(s)])

\* list.sort: stable
RECURSIVE sort_msgs(_)
sort_msgs(s) ==
    IF s = <<>> THEN <<>>
    ELSE insert_sorted(sort_msgs(SubSeq(s, 1, Len(s) - 1)), s[Len(s)])

RECURSIVE map_normalize(_)
map_normalize(s) ==
    IF s = <<>> THEN <<>>
    ELSE <<normalize_message(Head(s))>> \o map_normalize(Tail(s))

\* a faulty Normalized: the records are left in the artifact's order
Normalized_Unsorted(msgs) ==
    map_normalize(SelectSeq(msgs, LAMBDA m : m.id # 0))

\* lines 412-413: normalized
Normalized(msgs) ==
    sort_msgs(map_normalize(SelectSeq(msgs, LAMBDA m : m.id # 0)))

----------------------------------------------------------------------------
(* forward_loop.py: forward_one_message *)

EmptyMap == [x \in {} |-> 0]

\* a faulty Put: the assignment drops the other keys
Put_Fresh(d, k, v) == [x \in {k} |-> v]

\* dict assignment d[k] = v
Put(d, k, v) == [x \in DOMAIN d \cup {k} |-> IF x = k THEN v ELSE d[x]]

\* lines 232-238: the parent's destination id is known: a real reply
NativeReply(m, idmap) ==
    m.reply_to_id # 0 /\ m.reply_to_id \in DOMAIN idmap

\* a faulty UseQuote: the quote line is written for every reply
UseQuote_EveryReply(m, idmap) == m.reply_to_id # 0

\* lines 232, 239: a reply whose parent has no destination id: quote it
UseQuote(m, idmap) ==
    m.reply_to_id # 0 /\ m.reply_to_id \notin DOMAIN idmap

\* lines 235-238
message_reference(d) ==
    <<[message_id |-> d, fail_if_not_exists |-> FALSE]>>

\* lines 241-254: qp_line
QuoteLine(m, index) ==
    <<IF m.reply_preview THEN "Qp"
      ELSE IF m.reply_to_id \in index THEN "Qi"
      ELSE "Qu">>
    \o (IF m.jump_url THEN <<"NL", "J">> ELSE <<>>)

\* lines 226-256: base_payload["content"] after the reply handling
ReplyContent(m, idmap, index) ==
    IF UseQuote(m, idmap)
    THEN LET content == strip(m.content)
         IN strip(QuoteLine(m, index)
                  \o (IF content # <<>> THEN <<"NL", "NL">> \o content
                      ELSE <<>>))
    ELSE m.content

\* what a HEAD or a GET of an attachment can give: no usable answer, a size
\* within the cap, a size above it
HeadOutcomes == {"fail", "small", "big"}
GetOutcomes == {"fail", "small", "big"}

\* a faulty Classify: the size of the fetched content is not checked
Classify_NoFetchedSizeCheck(att, h, g) ==
    LET size_hint == IF att.size_hint # 0 THEN att.size_hint
                     ELSE IF h = "small" THEN SizeCap
                     ELSE IF h = "big" THEN SizeCap + 1
                     ELSE 0
    IN IF size_hint # 0 /\ size_hint > SizeCap THEN "link"
       ELSE IF g = "fail" THEN "link"
       ELSE "file"

\* a faulty Classify: the answer of the GET is not checked
Classify_NoFetchCheck(att, h, g) ==
    LET size_hint == IF att.size_hint # 0 THEN att.size_hint
                     ELSE IF h = "small" THEN SizeCap
                     ELSE IF h = "big" THEN SizeCap + 1
                     ELSE 0
    IN IF size_hint # 0 /\ size_hint > SizeCap THEN "link"
       ELSE IF g = "big" THEN "link"
       ELSE "file"

\* lines 266-290: re-upload ("file") or link only ("link")
Classify(att, h, g) ==
    LET size_hint == IF att.size_hint # 0 THEN att.size_hint
                     ELSE IF h = "small" THEN SizeCap
                     ELSE IF h = "big" THEN SizeCap + 1
                     ELSE 0
    IN IF size_hint # 0 /\ size_hint > SizeCap THEN "link"
       ELSE IF g = "fail" THEN "link"
       ELSE IF g = "big" THEN "link"
       ELSE "file"

\* lines 268-272: the HEAD that was made for the attachment, "none" when
\* the size hint made it unnecessary
HeadDone(att, h) == IF att.size_hint # 0 THEN "none" ELSE h

\* lines 276-281: the GET that was made for the attachment, "none" when the
\* known size was over the cap
GetDone(att, h, g) ==
    IF att.size_hint > SizeCap \/ (att.size_hint = 0 /\ h = "big")
    THEN "none"
    ELSE g

Indexes(n) == [i \in 1..n |-> i]

\* downloadable_files and link_only_urls, as places in message["attachments"]
Downloadable(m, hs, gs) ==
    SelectSeq(Indexes(Len(m.attachments)),
              LAMBDA i : Classify(m.attachments[i], hs[i], gs[i]) = "file")
LinkOnly(m, hs, gs) ==
    SelectSeq(Indexes(Len(m.attachments)),
              LAMBDA i : Classify(m.attachments[i], hs[i], gs[i]) = "link")

LinkToken(i) == IF i = 1 THEN "L1" ELSE IF i = 2 THEN "L2" ELSE "L3"

\* line 293: "\n".join(...)
RECURSIVE links_text(_)
links_text(ls) ==
    IF ls = <<>> THEN <<>>
    ELSE IF Len(ls) = 1 THEN <<LinkToken(ls[1])>>
    ELSE <<LinkToken(ls[1]), "NL">> \o links_text(Tail(ls))

\* lines 292-295
WithLinks(content, links) ==
    IF links = <<>> THEN content
    ELSE LET c == strip(content)
         IN strip(c \o (IF c # <<>> THEN <<"NL">> ELSE <<>>)
                  \o links_text(links))

\* lines 297-299: chunks
Chunks(m, idmap, index, links) ==
    chunk_text(WithLinks(ReplyContent(m, idmap, index), links), ChunkLimit)

\* lines 300-308: the primary post's content
PrimaryContent(m, chunks, files, links) ==
    IF strip(chunks[1]) = <<>> /\ ~m.embeds /\ files = <<>> /\ links = <<>>
    THEN <<"[no text]">>
    ELSE chunks[1]

\* a webhook POST as the destination sees it, and what it answered
Req(src, kind, content, ref, files, label, out, dest) ==
    [src |-> src, kind |-> kind, content |-> content,
     message_reference |-> ref, files |-> files, label |-> label,
     out |-> out, dest |-> dest]

\* session.post: a message created and its id returned ("ok"), a response
\* without an id ("err"), or a transport exception ("exc")
PostOutcomes == {"ok", "err", "exc"}

NoCur == [chunks |-> <<>>, k |-> 0, dest |-> 0, prev |-> 0,
          rest |-> <<>>, b |-> 0, heads |-> <<>>, gets |-> <<>>,
          err |-> FALSE]
NoStart == [seen |-> {}, map |-> EmptyMap, all_seen |-> FALSE]
NoCrash == [valid |-> FALSE, art |-> <<>>, index |-> {}, acc |-> {},
            rerun |-> FALSE]

\* what forward_one_message does next: the text parts, then the remaining
\* attachment batches (line 340 raises when batch_list does), then it
\* returns
Stage(c) ==
    IF c.k <= Len(c.chunks) THEN "parts"
    ELSE IF c.err THEN "raised"
    ELSE IF c.b <= Len(c.rest) THEN "batches"
    ELSE "ret"

\* a faulty AlreadySeen: the dedupe test is dropped
AlreadySeen_Never(m) == FALSE

\* line 430: if m["id"] in seen
AlreadySeen(m) == m.id \in seen

InitFwdState ==
    /\ state_file = {}
    /\ id_map_file = EmptyMap
    /\ next_dest = 1
    /\ fpc = "idle"
    /\ normalized = <<>>
    /\ id_index = {}
    /\ seen = {}
    /\ id_map = EmptyMap
    /\ pos = 0
    /\ cur = NoCur
    /\ reqs = <<>>
    /\ h_accepted = [i \in Ids |-> 0]
    /\ h_start = NoStart
    /\ h_crash = NoCrash

\* the forwarder before a run, with the model's --max-files-per-post
InitFwd ==
    /\ InitFwdState
    /\ max_files_per_post = MaxFilesPerPost

\* lines 392-427: read the artifact, load both stores
FwdStartStep(art) ==
    /\ fpc = "idle"
    /\ id_index' = build_id_index(art)
    /\ normalized' = Normalized(art)
    /\ seen' = state_file
    /\ id_map' = id_map_file
    /\ pos' = 1
    /\ cur' = NoCur
    /\ reqs' = <<>>
    /\ fpc' = "msg"
    /\ h_start' = [seen |-> state_file, map |-> id_map_file,
                   all_seen |-> \A i \in DOMAIN art :
                                  art[i].id # 0 => art[i].id \in state_file]
    /\ h_crash' = IF /\ h_crash.valid
                     /\ h_crash.art = Normalized(art)
                     /\ h_crash.index = build_id_index(art)
                  THEN [h_crash EXCEPT !.valid = FALSE, !.rerun = TRUE]
                  ELSE NoCrash
    /\ UNCHANGED <<state_file, id_map_file, next_dest, h_accepted>>

\* lines 392-427, the forwarder run on its own
FwdStart(art) ==
    /\ FwdStartStep(art)
    /\ UNCHANGED <<schedVars, postVars, saveVars, argVars, onceVars, runVars>>

\* lines 428-431: the message is in seen, skip it
FwdSkip ==
    /\ fpc = "msg"
    /\ pos <= Len(normalized)
    /\ AlreadySeen(normalized[pos])
    /\ pos' = pos + 1
    /\ UNCHANGED <<state_file, id_map_file, next_dest, fpc, normalized,
                   id_index, seen, id_map, cur, reqs, h_accepted, h_start,
                   h_crash>>
    /\ UNCHANGED <<schedVars, postVars, saveVars, argVars, onceVars, runVars>>

\* the destination's answer to a POST: the id it returns (0: none)
Answer(out) == IF out = "ok" THEN next_dest ELSE 0

\* lines 223-321, 356-362: build the payload, decide the attachments, send
\* the primary post
FwdPrimary(out) ==
    /\ fpc = "msg"
    /\ pos <= Len(normalized)
    /\ ~AlreadySeen(normalized[pos])
    /\ out = "ok" => next_dest <= MaxDest
    /\ \E hs \in [1..Len(normalized[pos].attachments)
                      -> HeadOutcomes],
          gs \in [1..Len(normalized[pos].attachments)
                      -> GetOutcomes] :
       LET m == normalized[pos]
           files == Downloadable(m, hs, gs)
           links == LinkOnly(m, hs, gs)
           chunks == Chunks(m, id_map, id_index, links)
           ref == IF NativeReply(m, id_map)
                  THEN message_reference(id_map[m.reply_to_id])
                  ELSE <<>>
           cut == SliceAt(Len(files), max_files_per_post)
           first_batch == SubSeq(files, 1, cut)
           remaining == SubSeq(files, cut + 1, Len(files))
           c == [chunks |-> chunks, k |-> 2, dest |-> Answer(out),
                 prev |-> Answer(out),
                 rest |-> batch_list(remaining, max_files_per_post), b |-> 1,
                 err |-> /\ remaining # <<>>
                         /\ BatchListRaises(remaining, max_files_per_post),
                 heads |-> [i \in DOMAIN m.attachments |->
                              HeadDone(m.attachments[i], hs[i])],
                 gets |-> [i \in DOMAIN m.attachments |->
                             GetDone(m.attachments[i], hs[i], gs[i])]]
       IN /\ reqs' = Append(reqs,
                 Req(m.id, "primary", PrimaryContent(m, chunks, files, links),
                     ref, first_batch, 0, out, Answer(out)))
          /\ cur' = c
          /\ fpc' = IF out = "exc" THEN "raised" ELSE Stage(c)
          /\ h_accepted' = IF out = "ok"
                           THEN [h_accepted EXCEPT ![m.id] = Min(@ + 1, 2)]
                           ELSE h_accepted
    /\ next_dest' = IF out = "ok" THEN next_dest + 1 ELSE next_dest
    /\ UNCHANGED <<state_file, id_map_file, normalized, id_index, seen,
                   id_map, pos, h_start, h_crash>>
    /\ UNCHANGED <<schedVars, postVars, saveVars, argVars, onceVars, runVars>>

\* a faulty NextPrev: an answer without an id forgets the last id
NextPrev_Forget(prev, answer) == answer

\* lines 333, 374: prev_id = resp2.json().get("id") or prev_id
NextPrev(prev, answer) == IF answer # 0 THEN answer ELSE prev

\* lines 323-335, 364-376: post the next text chunk as a chained reply
FwdPart(out) ==
    /\ fpc = "parts"
    /\ out = "ok" => next_dest <= MaxDest
    /\ LET m == normalized[pos]
           ref == IF cur.prev # 0 THEN message_reference(cur.prev) ELSE <<>>
           c == [cur EXCEPT !.k = @ + 1,
                            !.prev = NextPrev(@, Answer(out))]
       IN /\ reqs' = Append(reqs,
                 Req(m.id, "part", cur.chunks[cur.k], ref, <<>>, cur.k,
                     out, Answer(out)))
          /\ cur' = c
          /\ fpc' = IF out = "exc" THEN "raised" ELSE Stage(c)
    /\ next_dest' = IF out = "ok" THEN next_dest + 1 ELSE next_dest
    /\ UNCHANGED <<state_file, id_map_file, normalized, id_index, seen,
                   id_map, pos, h_accepted, h_start, h_crash>>
    /\ UNCHANGED <<schedVars, postVars, saveVars, argVars, onceVars, runVars>>

\* lines 337-355: post the next batch of remaining files
FwdBatch(out) ==
    /\ fpc = "batches"
    /\ out = "ok" => next_dest <= MaxDest
    /\ LET m == normalized[pos]
           ref == IF cur.dest # 0 THEN message_reference(cur.dest) ELSE <<>>
           c == [cur EXCEPT !.b = @ + 1]
       IN /\ reqs' = Append(reqs,
                 Req(m.id, "batch", <<"B">>, ref, cur.rest[cur.b], cur.b,
                     out, Answer(out)))
          /\ cur' = c
          /\ fpc' = IF out = "exc" THEN "raised" ELSE Stage(c)
    /\ next_dest' = IF out = "ok" THEN next_dest + 1 ELSE next_dest
    /\ UNCHANGED <<state_file, id_map_file, normalized, id_index, seen,
                   id_map, pos, h_accepted, h_start, h_crash>>
    /\ UNCHANGED <<schedVars, postVars, saveVars, argVars, onceVars, runVars>>

\* a faulty FwdReturn: both stores are written out after each message
FwdReturn_Flush ==
    /\ fpc = "ret"
    /\ LET m == normalized[pos]
       IN /\ seen' = seen \cup {m.id}
          /\ id_map' = IF cur.dest # 0 THEN Put(id_map, m.id, cur.dest)
                       ELSE id_map
    /\ state_file' = seen'
    /\ id_map_file' = id_map'
    /\ pos' = pos + 1
    /\ cur' = NoCur
    /\ fpc' = "msg"
    /\ UNCHANGED <<next_dest, normalized, id_index, reqs, h_accepted,
                   h_start, h_crash>>
    /\ UNCHANGED <<schedVars, postVars, saveVars, argVars, onceVars, runVars>>

\* lines 378, 443-447: forward_one_message returns; mark the message seen
\* and record its destination id if there is one
FwdReturn ==
    /\ fpc = "ret"
    /\ LET m == normalized[pos]
       IN /\ seen' = seen \cup {m.id}
          /\ id_map' = IF cur.dest # 0 THEN Put(id_map, m.id, cur.dest)
                       ELSE id_map
    /\ pos' = pos + 1
    /\ cur' = NoCur
    /\ fpc' = "msg"
    /\ UNCHANGED <<state_file, id_map_file, next_dest, normalized, id_index,
                   reqs, h_accepted, h_start, h_crash>>
    /\ UNCHANGED <<schedVars, postVars, saveVars, argVars, onceVars, runVars>>

\* a faulty ExceptNext: the exception ends the loop
ExceptNext_Abort(p) == Len(normalized) + 1

\* lines 428, 448-449: the except clause only prints, and the for loop
\* takes the next message
ExceptNext(p) == p + 1

\* lines 448-449: an exception left forward_one_message; log it, go on
FwdExcept ==
    /\ fpc = "raised"
    /\ pos' = ExceptNext(pos)
    /\ cur' = NoCur
    /\ fpc' = "msg"
    /\ UNCHANGED <<state_file, id_map_file, next_dest, normalized, id_index,
                   seen, id_map, reqs, h_accepted, h_start, h_crash>>
    /\ UNCHANGED <<schedVars, postVars, saveVars, argVars, onceVars, runVars>>

\* a faulty SaveOrder: the id map is written first
SaveOrder_MapFirst == <<"id_map.json", "state.json">>

\* lines 452-453: state.json is written, then id_map.json
SaveOrder == <<"state.json", "id_map.json">>

\* save_json of main's seen or id_map to its file
WriteStore(path) ==
    /\ state_file' = IF path = "state.json" THEN seen ELSE state_file
    /\ id_map_file' = IF path = "id_map.json" THEN id_map ELSE id_map_file

\* lines 451-452: the loop is over; write state.json
FwdSaveState ==
    /\ fpc = "msg"
    /\ pos > Len(normalized)
    /\ WriteStore(SaveOrder[1])
    /\ fpc' = "save_map"
    /\ UNCHANGED <<next_dest, normalized, id_index, seen,
                   id_map, pos, cur, reqs, h_accepted, h_start, h_crash>>
    /\ UNCHANGED <<schedVars, postVars, saveVars, argVars, onceVars, runVars>>

\* line 453: write id_map.json
FwdSaveMap ==
    /\ fpc = "save_map"
    /\ WriteStore(SaveOrder[2])
    /\ fpc' = "done"
    /\ UNCHANGED <<next_dest, normalized, id_index, seen, id_map,
                   pos, cur, reqs, h_accepted, h_start, h_crash>>
    /\ UNCHANGED <<schedVars, postVars, saveVars, argVars, onceVars, runVars>>

\* the process's memory is gone when it ends
Forget ==
    /\ fpc' = "idle"
    /\ normalized' = <<>>
    /\ id_index' = {}
    /\ seen' = {}
    /\ id_map' = EmptyMap
    /\ pos' = 0
    /\ cur' = NoCur
    /\ reqs' = <<>>
    /\ h_start' = NoStart

\* line 454: the run is complete
FwdExitStep ==
    /\ fpc = "done"
    /\ Forget
    /\ h_crash' = NoCrash
    /\ UNCHANGED <<state_file, id_map_file, next_dest, h_accepted>>

\* line 454, the forwarder run on its own
FwdExit ==
    /\ FwdExitStep
    /\ UNCHANGED <<schedVars, postVars, saveVars, argVars, onceVars, runVars>>

\* the process is terminated between two steps of a run
FwdCrash ==
    /\ fpc \in {"msg", "parts", "batches", "ret", "raised", "save_map"}
    /\ Forget
    /\ h_crash' = [valid |-> TRUE, art |-> normalized, index |-> id_index,
                   acc |-> {reqs[i].src : i \in {j \in DOMAIN reqs :
                              reqs[j].kind = "primary" /\ reqs[j].out = "ok"}},
                   rerun |-> FALSE]
    /\ UNCHANGED <<state_file, id_map_file, next_dest, h_accepted>>
    /\ UNCHANGED <<schedVars, postVars, saveVars, argVars, onceVars, runVars>>

FwdNext ==
    \/ \E art \in Artifacts : FwdStart(art)
    \/ FwdSkip
    \/ \E out \in PostOutcomes : FwdPrimary(out)
    \/ \E out \in PostOutcomes : FwdPart(out)
    \/ \E out \in PostOutcomes : FwdBatch(out)
    \/ FwdReturn
    \/ FwdExcept
    \/ FwdSaveState
    \/ FwdSaveMap
    \/ FwdExit

\* runs that may be terminated between two steps
FwdCrashNext ==
    \/ FwdNext
    \/ FwdCrash

----------------------------------------------------------------------------
(* orchestrate_one.py with forward_loop.py as its child process *)

\* the channel: one message, the long one, sent at tick SentTick
ChannelRecord == Rec(1, 1, <<"a", "b", "c", "a">>, 0, 0, <<>>, FALSE)
SentTick == 6

\* orchestrate_one.py lines 109-126: what the exporter writes to out_json
\* for --after iso_z(after_dt) --before iso_z(before_dt)
Exported(a, b) ==
    IF fromisoformat(iso_z(a)) <= SentTick /\ SentTick < fromisoformat(iso_z(b))
    THEN <<ChannelRecord>>
    ELSE <<>>

\* the HTTP calls may fail until the first checkpoint is written and
\* succeed from then on
CombOutcomes == IF progress_file = <<>> THEN PostOutcomes ELSE {"ok"}

\* orchestrate_one.py lines 136-147: the forwarder is started on out_json
CombLaunch ==
    /\ opc = "forward"
    /\ FwdStart(Exported(after_dt, before_dt))

\* forward_loop.py line 454, orchestrate_one.py lines 147-165: the
\* forwarder returns from main, its exit code is 0, the scheduler goes on
CombForwardEnd ==
    /\ SchedForwardStep(0, 0)
    /\ FwdExitStep
    /\ UNCHANGED <<postVars, saveVars, argVars, onceVars, runVars>>

CombNext ==
    \/ \E n \in MaxBack..(MaxBack + MaxNow) : SchedStart(n)
    \/ SchedBreak
    \/ SchedExport(0, TRUE)
    \/ CombLaunch
    \/ FwdSkip
    \/ \E out \in CombOutcomes : FwdPrimary(out)
    \/ \E out \in CombOutcomes : FwdPart(out)
    \/ FwdReturn
    \/ FwdExcept
    \/ FwdSaveState
    \/ FwdSaveMap
    \/ CombForwardEnd
    \/ SchedExit

----------------------------------------------------------------------------
(* forward_once.py: post_webhook *)

\* what session.post gives: a transport exception (NoResponse) or a
\* response, by its status code
NoResponse == 0
PostAnswers == {NoResponse, 200, 404, 429, 503}

\* line 203: resp.status_code == 429
IsRateLimited(code) == code = 429

\* a faulty IsServerError: every error status is retried
IsServerError_Wide(code) == code >= 400

\* line 213: 500 <= resp.status_code < 600
IsServerError(code) == 500 <= code /\ code < 600

\* lines 197-198: if tries >= 5: raise
TransportExhausted(t) == t >= 5

\* a faulty RateLimitExhausted: a 429 is retried without end
RateLimitExhausted_Never(t) == FALSE

\* lines 209-210: if tries > 8: return resp
RateLimitExhausted(t) == t > 8

\* lines 216-217: if tries >= 5: return resp
ServerErrorExhausted(t) == t >= 5

InitPost ==
    /\ ppc = "idle"
    /\ tries = 0
    /\ plog = <<>>
    /\ presult = <<>>

\* lines 179-184: post_webhook is called
PostCall ==
    /\ ppc \in {"idle", "returned", "raised"}
    /\ ppc' = "loop"
    /\ tries' = 0
    /\ plog' = <<>>
    /\ presult' = <<>>
    /\ UNCHANGED <<schedVars, fwdVars, saveVars, argVars, onceVars, runVars>>

\* lines 185-223: one turn of the while loop: session.post, then raise,
\* return or go round again (the sleeps take time and change nothing)
PostAttempt(a) ==
    /\ ppc = "loop"
    /\ plog' = Append(plog, a)
    /\ IF a = NoResponse
       THEN IF TransportExhausted(tries)
            THEN ppc' = "raised" /\ UNCHANGED <<tries, presult>>
            ELSE tries' = tries + 1 /\ UNCHANGED <<ppc, presult>>
       ELSE IF IsRateLimited(a)
       THEN /\ tries' = tries + 1
            /\ IF RateLimitExhausted(tries + 1)
               THEN ppc' = "returned" /\ presult' = <<a>>
               ELSE UNCHANGED <<ppc, presult>>
       ELSE IF IsServerError(a)
       THEN IF ServerErrorExhausted(tries)
            THEN ppc' = "returned" /\ presult' = <<a>> /\ UNCHANGED tries
            ELSE tries' = tries + 1 /\ UNCHANGED <<ppc, presult>>
       ELSE ppc' = "returned" /\ presult' = <<a>> /\ UNCHANGED tries
    /\ UNCHANGED <<schedVars, fwdVars, saveVars, argVars, onceVars, runVars>>

PostNext ==
    \/ PostCall
    \/ \E a \in PostAnswers : PostAttempt(a)

----------------------------------------------------------------------------
(* forward_once.py: forward_message.  Here a text is the number of its
   characters. *)

\* line 270: the limit passed to chunk_text
OnceChunkLimit == 1900

\* the destination's cap on the characters of one post (line 62)
DiscordCap == 2000

\* the decimal digits of a part or batch index
Digits(n) == IF n < 10 THEN 1 ELSE 2

\* lines 273, 370: len(f" (part {idx})")
PartSuffixLen(idx) == 8 + Digits(idx)

\* line 347: len(f"(attachment batch {batch_idx})")
BatchTextLen(idx) == 19 + Digits(idx)

\* line 268: len("(replying to an earlier message)\n")
PlaceholderLen == 33

\* line 266: len(f"{message['reply_preview']}\n") of the previews drawn
PreviewLen == 40

\* line 318: len(f"Attachment: {u}")
LinkLineLen(url_len) == 12 + url_len

RECURSIVE chunk_lens(_, _)
chunk_lens(n, limit) ==
    IF n = 0 THEN <<>>
    ELSE <<Min(n, limit)>> \o chunk_lens(n - Min(n, limit), limit)

\* chunk_text (lines 61-70), on lengths
chunk_text_len(n, limit) == IF n = 0 THEN <<0>> ELSE chunk_lens(n, limit)

\* lines 264-268: the length of header; reply is "none", "mapped" (the
\* parent is in the id map), "preview" or "unknown"
OnceHeaderLen(reply) ==
    IF reply = "preview" THEN PreviewLen
    ELSE IF reply = "unknown" THEN PlaceholderLen
    ELSE 0

RECURSIVE SumLinkLines(_, _)
SumLinkLines(atts, ls) ==
    IF ls = <<>> THEN 0
    ELSE LinkLineLen(atts[Head(ls)].url_len) + SumLinkLines(atts, Tail(ls))

\* lines 316-318: len(link_suffix): a newline, the lines, a newline between
\* two lines
LinkSuffixLen(atts, ls) ==
    IF ls = <<>> THEN 0 ELSE 1 + SumLinkLines(atts, ls) + (Len(ls) - 1)

\* line 423: max(1, min(10, args.max_files_per_post))
ClampFiles(v) == IF Min(10, v) >= 1 THEN Min(10, v) ELSE 1

\* the messages forward_message is called with
OnceBodyLens == {0, 1, 1900, 1901, 3801}
OnceAtts == { [size_hint |-> SizeCap + 1, url_len |-> 90],
              [size_hint |-> 0, url_len |-> 100] }
OnceAttLists == UNION {[1..n -> OnceAtts] : n \in 0..2}
OnceMessages ==
    [content_len : OnceBodyLens,
     reply : {"none", "mapped", "preview", "unknown"},
     atts : OnceAttLists]

NoOnce == [pc |-> "idle", m |-> <<>>, dry_run |-> FALSE, chunks |-> <<>>,
           k |-> 0, rem |-> 0, b |-> 0, posted |-> <<>>]
NoGet == [pc |-> "idle", tries |-> 0, log |-> <<>>, result |-> <<>>]

InitOnce ==
    /\ once = NoOnce
    /\ getf = NoGet

\* what forward_message does after a post: the remaining batches of files,
\* then the text parts, then it returns
OnceStage(c) ==
    IF c.rem > 0 THEN "batches"
    ELSE IF c.k <= Len(c.chunks) THEN "parts"
    ELSE "returned"

OncePosted(kind, len, files, out) ==
    [kind |-> kind, len |-> len, files |-> files, out |-> out]

\* lines 260-323 with --dry-run: the attachments are probed and fetched,
\* nothing is posted
OnceDryRun ==
    /\ once.pc = "call"
    /\ once.dry_run
    /\ once' = [once EXCEPT !.pc = "returned"]
    /\ UNCHANGED getf
    /\ UNCHANGED <<schedVars, fwdVars, postVars, saveVars, argVars, runVars>>

\* lines 260-338, 356-365: build the text, decide the attachments, send the
\* first post
OncePrimary(out) ==
    /\ once.pc = "call"
    /\ ~once.dry_run
    /\ \E hs \in [DOMAIN once.m.atts -> HeadOutcomes],
          gs \in [DOMAIN once.m.atts -> GetOutcomes] :
       LET m == once.m
           chunks == chunk_text_len(OnceHeaderLen(m.reply) + m.content_len,
                                    OnceChunkLimit)
           base_len == chunks[1] + (IF Len(chunks) > 1 THEN PartSuffixLen(1)
                                    ELSE 0)
           downloadable ==
               SelectSeq(Indexes(Len(m.atts)),
                         LAMBDA i : Classify(m.atts[i], hs[i], gs[i]) = "file")
           link_only ==
               SelectSeq(Indexes(Len(m.atts)),
                         LAMBDA i : Classify(m.atts[i], hs[i], gs[i]) = "link")
           first == Min(Len(downloadable), ClampFiles(max_files_per_post))
           c == [once EXCEPT
                   !.chunks = chunks, !.k = 2, !.b = 2,
                   !.rem = Len(downloadable) - first,
                   !.posted = Append(@,
                       OncePosted("primary",
                                  base_len + LinkSuffixLen(m.atts, link_only),
                                  first, out))]
       IN once' = [c EXCEPT !.pc = IF out = "exc" THEN "raised"
                                   ELSE OnceStage(c)]
    /\ UNCHANGED getf
    /\ UNCHANGED <<schedVars, fwdVars, postVars, saveVars, argVars, runVars>>

\* lines 343-355: post the next batch of remaining files
OnceBatch(out) ==
    /\ once.pc = "batches"
    /\ LET batch == Min(once.rem, ClampFiles(max_files_per_post))
           c == [once EXCEPT
                   !.rem = @ - batch, !.b = @ + 1,
                   !.posted = Append(@,
                       OncePosted("batch", BatchTextLen(once.b), batch,
                                  out))]
       IN once' = [c EXCEPT !.pc = IF out = "exc" THEN "raised"
                                   ELSE OnceStage(c)]
    /\ UNCHANGED getf
    /\ UNCHANGED <<schedVars, fwdVars, postVars, saveVars, argVars, runVars>>

\* lines 368-379: post the next text chunk
OncePart(out) ==
    /\ once.pc = "parts"
    /\ LET c == [once EXCEPT
                   !.k = @ + 1,
                   !.posted = Append(@,
                       OncePosted("part",
                                  once.chunks[once.k] + PartSuffixLen(once.k),
                                  0, out))]
       IN once' = [c EXCEPT !.pc = IF out = "exc" THEN "raised"
                                   ELSE OnceStage(c)]
    /\ UNCHANGED getf
    /\ UNCHANGED <<schedVars, fwdVars, postVars, saveVars, argVars, runVars>>

OnceNext ==
    \/ OnceDryRun
    \/ \E out \in PostOutcomes : OncePrimary(out)
    \/ \E out \in PostOutcomes : OnceBatch(out)
    \/ \E out \in PostOutcomes : OncePart(out)

----------------------------------------------------------------------------
(* forward_once.py: get_file *)

\* what session.get gives: an exception (NoResponse; r = None, line 237) or
\* a response, by its status code
GetAnswers == {NoResponse, 200, 302, 404, 429, 503}

\* a faulty Truthy: every response counts as true
Truthy_NotNone(r) == r # NoResponse

\* `r and ...`, `not r` (lines 238, 240, 243): None is false, and a
\* requests.Response is true exactly when its status is below 400
\* (Response.__bool__ returns Response.ok)
Truthy(r) == r # NoResponse /\ r < 400

\* line 244: if tries >= 4: return r
FetchExhausted(t) == t >= 4

\* line 232: get_file is called
GetCall ==
    /\ getf.pc \in {"idle", "returned"}
    /\ getf' = [NoGet EXCEPT !.pc = "loop"]
    /\ UNCHANGED once
    /\ UNCHANGED <<schedVars, fwdVars, postVars, saveVars, argVars, runVars>>

\* lines 233-249: one turn of the while loop: session.get, then return or
\* go round again (the sleeps take time and change nothing)
GetAttempt(r) ==
    /\ getf.pc = "loop"
    /\ LET logged == [getf EXCEPT !.log = Append(@, r)]
           return == [logged EXCEPT !.pc = "returned", !.result = <<r>>]
           again == [logged EXCEPT !.tries = @ + 1]
       IN getf' =
            IF Truthy(r) /\ 200 <= r /\ r < 300 THEN return
            ELSE IF Truthy(r) /\ r = 429 THEN again
            ELSE IF \/ ~Truthy(r)
                    \/ LET code == IF Truthy(r) THEN r ELSE 500
                       IN 500 <= code /\ code < 600
                 THEN IF FetchExhausted(getf.tries) THEN return ELSE again
            ELSE return
    /\ UNCHANGED once
    /\ UNCHANGED <<schedVars, fwdVars, postVars, saveVars, argVars, runVars>>

GetNext ==
    \/ GetCall
    \/ \E r \in GetAnswers : GetAttempt(r)

----------------------------------------------------------------------------
(* save_json (forward_loop.py, forward_once.py) and save_progress
   (orchestrate_one.py) *)

\* the canonical paths: save_json writes state.json, save_progress writes
\* progress.json
Paths == {"state.json", "progress.json"}

\* a faulty TmpOf: the data is written to the path itself
TmpOf_InPlace(path) == path

\* forward_loop.py line 24: path + ".tmp"; orchestrate_one.py line 20:
\* path.with_suffix(".tmp")
TmpOf(path) ==
    IF path = "state.json" THEN "state.json.tmp" ELSE "progress.tmp"

Files == Paths \cup {TmpOf(path) : path \in Paths}

\* the content of a file: <<>> when there is no file, else the data it was
\* opened for and how many of its pieces were written so far
NoFile == <<>>
Content(d, n) == <<[data |-> d, pieces |-> n]>>
Whole(d) == Content(d, Pieces)

InitSave ==
    /\ fs = [f \in Files |-> NoFile]
    /\ wpc = "idle"
    /\ wpath = "state.json"
    /\ wdata = 0
    /\ h_old = NoFile

\* forward_loop.py lines 23-25, orchestrate_one.py lines 20-21: the
\* temporary file is opened for writing, which creates or empties it
SaveOpen(path, d) ==
    /\ wpc = "idle"
    /\ wpath' = path
    /\ wdata' = d
    /\ h_old' = fs[path]
    /\ fs' = [fs EXCEPT ![TmpOf(path)] = Content(d, 0)]
    /\ wpc' = "writing"
    /\ UNCHANGED <<schedVars, fwdVars, postVars, argVars, onceVars, runVars>>

\* forward_loop.py line 26, orchestrate_one.py line 21: the next piece of
\* the serialized data reaches the file
SaveWrite ==
    /\ wpc = "writing"
    /\ fs[TmpOf(wpath)][1].pieces < Pieces
    /\ fs' = [fs EXCEPT ![TmpOf(wpath)] =
                 Content(wdata, fs[TmpOf(wpath)][1].pieces + 1)]
    /\ UNCHANGED <<wpc, wpath, wdata, h_old>>
    /\ UNCHANGED <<schedVars, fwdVars, postVars, argVars, onceVars, runVars>>

\* forward_loop.py line 27, orchestrate_one.py line 22: the file is closed
\* and renamed over the path in one step
SaveReplace ==
    /\ wpc = "writing"
    /\ fs[TmpOf(wpath)][1].pieces = Pieces
    /\ fs' = IF TmpOf(wpath) = wpath THEN fs
             ELSE [fs EXCEPT ![wpath] = fs[TmpOf(wpath)],
                             ![TmpOf(wpath)] = NoFile]
    /\ wpc' = "idle"
    /\ UNCHANGED <<wpath, wdata, h_old>>
    /\ UNCHANGED <<schedVars, fwdVars, postVars, argVars, onceVars, runVars>>

\* the process crashes during the save; the files stay as they are
SaveCrash ==
    /\ wpc = "writing"
    /\ wpc' = "crashed"
    /\ UNCHANGED <<fs, wpath, wdata, h_old>>
    /\ UNCHANGED <<schedVars, fwdVars, postVars, argVars, onceVars, runVars>>

\* a new process starts after the crash
SaveRestart ==
    /\ wpc = "crashed"
    /\ wpc' = "idle"
    /\ UNCHANGED <<fs, wpath, wdata, h_old>>
    /\ UNCHANGED <<schedVars, fwdVars, postVars, argVars, onceVars, runVars>>

SaveNext ==
    \/ \E path \in Paths, d \in 0..MaxData : SaveOpen(path, d)
    \/ SaveWrite
    \/ SaveReplace
    \/ SaveCrash
    \/ SaveRestart

----------------------------------------------------------------------------
(* forward_once.py: main.  A record is its id; forward_message is seen by  *)
(* what it gives main: "ok" the destination accepted the first post and    *)
(* the call returns its id, "err" the first post was answered without an   *)
(* id and the call returns None, "exc" the call raised, "dry" the call     *)
(* printed what it would post (lines 321-323) and returned None.           *)

\* the ids of the channel's messages, and when each was sent
LogIds == 1..LogLen
LogTs(id) == 2 * id - 1

\* the artifacts main is run on by hand: any records, ids repeated or not
OnceArtifacts == UNION {[1..n -> LogIds] : n \in 0..OnceLen}

NoOnceMain == [pc |-> "idle", dry_run |-> FALSE, messages |-> <<>>,
               seen |-> {}, id_map |-> {}, new_msgs |-> <<>>, i |-> 0,
               calls |-> <<>>]
NoExport == [pc |-> "idle", dry_run |-> FALSE, since_arg |-> <<>>,
             now |-> FirstNow, since_eff |-> 0, until_eff |-> 0,
             artifact |-> <<>>, latest |-> <<>>, files0 |-> <<>>,
             prev |-> <<>>]
\* checkpoint: channel_<id>.json; state: the keys of seen_ids in
\* forward_state_<id>.json; id_map: the keys of id_map_<id>.json; exported:
\* the latest message timestamp in the files of --export-dir
NoFiles == [checkpoint |-> <<>>, state |-> {}, id_map |-> {},
            exported |-> <<>>]

InitRun ==
    /\ h_art = <<>>
    /\ om = NoOnceMain
    /\ xo = NoExport
    /\ xfs = NoFiles

\* normalize_export, lines 103-164: every record is kept, in the
\* artifact's order
normalize_export(art) == art

\* line 412: new_msgs = [m for m in messages if m["id"] not in seen]
NewMessages(messages, s) == SelectSeq(messages, LAMBDA id : id \notin s)

\* lines 397-417: read the artifact, load both stores, filter
OnceMainStartStep(art, dry) ==
    /\ om.pc = "idle"
    /\ om' = [pc |-> "loop", dry_run |-> dry,
              messages |-> normalize_export(art),
              seen |-> xfs.state, id_map |-> xfs.id_map,
              new_msgs |-> NewMessages(normalize_export(art), xfs.state),
              i |-> 1, calls |-> <<>>]
    /\ UNCHANGED <<h_art, xfs>>
    /\ UNCHANGED <<schedVars, fwdVars, postVars, saveVars, argVars, onceVars>>

\* forward_once.main run by hand
OnceMainStart(art, dry) ==
    /\ xo.pc = "idle"
    /\ OnceMainStartStep(art, dry)
    /\ UNCHANGED xo

OnceOutcomes == {"ok", "err", "exc"}

\* lines 419-430: the next message of new_msgs
OnceMainForward(out) ==
    /\ om.pc = "loop"
    /\ om.i <= Len(om.new_msgs)
    /\ (out = "dry") = om.dry_run
    /\ LET id == om.new_msgs[om.i]
       IN om' = [om EXCEPT
                   !.calls = Append(@, [id |-> id, out |-> out]),
                   !.seen = IF out = "exc" THEN @ ELSE @ \cup {id},
                   !.id_map = IF out = "ok" THEN @ \cup {id} ELSE @,
                   !.i = @ + 1]
    /\ UNCHANGED <<h_art, xo, xfs>>
    /\ UNCHANGED <<schedVars, fwdVars, postVars, saveVars, argVars, onceVars>>

\* lines 432-434: with --dry-run nothing is written
OnceMainSaveState ==
    /\ om.pc = "loop"
    /\ om.i > Len(om.new_msgs)
    /\ IF om.dry_run
       THEN /\ om' = [om EXCEPT !.pc = "done"]
            /\ UNCHANGED xfs
       ELSE /\ om' = [om EXCEPT !.pc = "save_map"]
            /\ xfs' = [xfs EXCEPT !.state = om.seen]
    /\ UNCHANGED <<h_art, xo>>
    /\ UNCHANGED <<schedVars, fwdVars, postVars, saveVars, argVars, onceVars>>

\* line 435
OnceMainSaveMap ==
    /\ om.pc = "save_map"
    /\ om' = [om EXCEPT !.pc = "done"]
    /\ xfs' = [xfs EXCEPT !.id_map = om.id_map]
    /\ UNCHANGED <<h_art, xo>>
    /\ UNCHANGED <<schedVars, fwdVars, postVars, saveVars, argVars, onceVars>>

\* line 437: the process ends
OnceMainExit ==
    /\ xo.pc = "idle"
    /\ om.pc = "done"
    /\ om' = NoOnceMain
    /\ UNCHANGED <<h_art, xo, xfs>>
    /\ UNCHANGED <<schedVars, fwdVars, postVars, saveVars, argVars, onceVars>>

OnceMainRun ==
    \/ \E out \in OnceOutcomes \cup {"dry"} : OnceMainForward(out)
    \/ OnceMainSaveState
    \/ OnceMainSaveMap

OnceMainNext ==
    \/ \E art \in OnceArtifacts, dry \in BOOLEAN : OnceMainStart(art, dry)
    \/ OnceMainRun
    \/ OnceMainExit

----------------------------------------------------------------------------
(* export_once.py: main, with forward_once.py as its child process *)

Max(a, b) == IF a >= b THEN a ELSE b

\* what the exporter writes for --after a --before b at time now: the
\* messages sent by then whose timestamp is in the window, oldest first
RECURSIVE ExportFrom(_, _, _, _)
ExportFrom(id, a, b, now) ==
    IF id > LogLen THEN <<>>
    ELSE (IF a <= LogTs(id) /\ LogTs(id) < b /\ LogTs(id) <= now
          THEN <<id>> ELSE <<>>) \o ExportFrom(id + 1, a, b, now)

\* find_latest_msg_ts_in_export
find_latest_msg_ts_in_export(art) ==
    IF art = <<>> THEN <<>> ELSE <<LogTs(art[Len(art)])>>

\* lines 119-140: --since, or the checkpoint, or the latest timestamp in
\* the export files, or 14 days before until
SinceOf(since_arg, until) ==
    IF since_arg # <<>> THEN since_arg[1]
    ELSE IF xfs.checkpoint # <<>> THEN xfs.checkpoint[1]
    ELSE IF xfs.exported # <<>> THEN xfs.exported[1]
    ELSE until - Lookback

\* the files that hold state: the checkpoint and the two stores
StateFiles == [checkpoint |-> xfs.checkpoint, state |-> xfs.state,
               id_map |-> xfs.id_map]

\* the ids forward_message was called for
RECURSIVE CalledIds(_)
CalledIds(calls) ==
    IF calls = <<>> THEN <<>> ELSE <<Head(calls).id>> \o CalledIds(Tail(calls))

\* history: how this run of export_once.main went
Ended(ok) == [ok |-> ok, dry |-> xo.dry_run, now |-> xo.now,
              since_arg |-> xo.since_arg, reported |-> CalledIds(om.calls)]

\* lines 108-154: the window
ExportStart(dry, since_arg, n) ==
    /\ xo.pc = "idle"
    /\ om.pc = "idle"
    /\ n >= xo.now
    /\ xo' = [xo EXCEPT !.pc = "export", !.dry_run = dry,
                        !.since_arg = since_arg, !.now = n,
                        !.since_eff = SinceOf(since_arg, n) - EdgeOverlap,
                        !.until_eff = n + EdgeOverlap,
                        !.artifact = <<>>, !.latest = <<>>,
                        !.files0 = <<StateFiles>>]
    /\ UNCHANGED <<h_art, om, xfs>>
    /\ UNCHANGED <<schedVars, fwdVars, postVars, saveVars, argVars, onceVars>>

\* lines 156-183: run the exporter, read the latest timestamp of its file
ExportRun(rc) ==
    /\ xo.pc = "export"
    /\ IF rc # 0
       THEN /\ xo' = [xo EXCEPT !.pc = "idle", !.prev = <<Ended(FALSE)>>]
            /\ UNCHANGED xfs
       ELSE LET art == ExportFrom(1, xo.since_eff, xo.until_eff, xo.now)
                latest == find_latest_msg_ts_in_export(art)
            IN /\ xo' = [xo EXCEPT !.pc = "forward", !.artifact = art,
                                   !.latest = latest]
               /\ xfs' = [xfs EXCEPT !.exported =
                            IF latest = <<>> THEN @
                            ELSE IF @ = <<>> THEN latest
                            ELSE <<Max(@[1], latest[1])>>]
    /\ UNCHANGED <<h_art, om>>
    /\ UNCHANGED <<schedVars, fwdVars, postVars, saveVars, argVars, onceVars>>

\* lines 185-206: start forward_once.py on the exported file
ExportLaunch ==
    /\ xo.pc = "forward"
    /\ OnceMainStartStep(xo.artifact, xo.dry_run)
    /\ UNCHANGED xo

\* lines 206-211: the forwarder ended with a non-zero exit code
ExportForwardFail ==
    /\ xo.pc = "forward"
    /\ om.pc \in {"loop", "save_map"}
    /\ xo' = [xo EXCEPT !.pc = "idle", !.prev = <<Ended(FALSE)>>]
    /\ om' = NoOnceMain
    /\ UNCHANGED <<h_art, xfs>>
    /\ UNCHANGED <<schedVars, fwdVars, postVars, saveVars, argVars, onceVars>>

\* lines 206-215: the forwarder ended with exit code 0; save the
\* checkpoint, the latest exported timestamp or until_eff, whatever
\* --dry-run is
ExportSave ==
    /\ xo.pc = "forward"
    /\ om.pc = "done"
    /\ xo' = [xo EXCEPT !.pc = "done", !.prev = <<Ended(TRUE)>>]
    /\ om' = NoOnceMain
    /\ xfs' = [xfs EXCEPT !.checkpoint =
                 IF xo.latest # <<>> THEN xo.latest ELSE <<xo.until_eff>>]
    /\ UNCHANGED h_art
    /\ UNCHANGED <<schedVars, fwdVars, postVars, saveVars, argVars, onceVars>>

\* line 219: the process ends
ExportExit ==
    /\ xo.pc = "done"
    /\ xo' = [xo EXCEPT !.pc = "idle"]
    /\ UNCHANGED <<h_art, om, xfs>>
    /\ UNCHANGED <<schedVars, fwdVars, postVars, saveVars, argVars, onceVars>>

ExportNext ==
    \/ \E dry \in BOOLEAN, since_arg \in {<<>>, <<0>>},
          n \in FirstNow..LastNow : ExportStart(dry, since_arg, n)
    \/ \E rc \in {0, 1} : ExportRun(rc)
    \/ ExportLaunch
    \/ OnceMainRun
    \/ ExportForwardFail
    \/ ExportSave
    \/ ExportExit

----------------------------------------------------------------------------
(* Specifications *)

\* the scheduler alone: the forwarder is the child process of SchedForward
InitS == InitSched /\ InitFwd /\ InitPost /\ InitSave /\ InitOnce /\ InitRun
SpecSched == InitS /\ [][SchedNext]_vars

\* a started process keeps running until it exits
FairSpecSched == InitS /\ [][SchedNext]_vars /\ WF_vars(SchedRun)

\* the forwarder alone, run to completion again and again on artifacts
InitF ==
    /\ InitSched /\ window = Minutes(1) /\ overlap = 0
    /\ InitFwd /\ InitPost /\ InitSave /\ InitOnce /\ InitRun
SpecFwd == InitF /\ [][FwdNext]_vars

\* the forwarder alone, where a run may be terminated at any step
SpecFwdCrash == InitF /\ [][FwdCrashNext]_vars

\* forward_one_message on its own: one message of any shape, forwarded by
\* a run that loaded an id map with or without its parent
Bodies ==
    { <<>>, <<" ">>, <<"a">>, <<" ", "a">>, <<"a", "b", "c">>,
      <<"a", "b", "c", "a">>, <<"a", "b", "c", "a", "b", "c", "a">> }
AttLists == { <<>>, <<SizeCap + 1>>, <<0>>, <<SizeCap, 0>> }
\* the destination id of a message posted before the ones the model creates
OldDest == MaxDest + 1
MsgRecords ==
    { Rec(2, 2, body, reference, refmsg, atts, url) :
        body \in Bodies, reference \in {0, 1}, refmsg \in {0, 1},
        atts \in AttLists, url \in BOOLEAN }

MsgInit(records, values) ==
    /\ InitSched /\ window = Minutes(1) /\ overlap = 0
    /\ max_files_per_post \in values
    /\ \E r \in records, parent_known \in BOOLEAN,
          parent_here \in BOOLEAN :
          /\ normalized = Normalized(<<r>>)
          /\ id_index = build_id_index(<<r>>)
                          \cup (IF parent_here THEN {1} ELSE {})
          /\ id_map = IF parent_known THEN Put(EmptyMap, 1, OldDest)
                      ELSE EmptyMap
    /\ seen = DOMAIN id_map
    /\ state_file = seen
    /\ id_map_file = id_map
    /\ next_dest = 1
    /\ fpc = "msg"
    /\ pos = 1
    /\ cur = NoCur
    /\ reqs = <<>>
    /\ h_accepted = [i \in Ids |-> IF i \in seen THEN 1 ELSE 0]
    /\ h_start = [seen |-> seen, map |-> id_map, all_seen |-> FALSE]
    /\ h_crash = NoCrash
    /\ InitPost /\ InitSave /\ InitOnce /\ InitRun

InitMsg == MsgInit(MsgRecords, {MaxFilesPerPost})

MsgNext ==
    \/ \E out \in PostOutcomes : FwdPrimary(out)
    \/ \E out \in PostOutcomes : FwdPart(out)
    \/ \E out \in PostOutcomes : FwdBatch(out)
    \/ FwdReturn
    \/ FwdExcept
    \/ FwdSaveState
    \/ FwdSaveMap

SpecMsg == InitMsg /\ [][MsgNext]_vars

\* forward_one_message for every kind of --max-files-per-post: argparse
\* (line 389, type=int) accepts every integer
FilesPerPostValues == {-1, 0, 1, 2}
BatchRecords ==
    { Rec(2, 2, body, 0, 0, atts, FALSE) :
        body \in { <<>>, <<"a", "b", "c", "a">>, <<" ", " ", " ", "a">> },
        atts \in { <<>>, <<SizeCap>>, <<SizeCap, SizeCap>>,
                   <<SizeCap, SizeCap, SizeCap>> } }
InitBatch == MsgInit(BatchRecords, FilesPerPostValues)
SpecBatch == InitBatch /\ [][MsgNext]_vars

\* post_webhook of forward_once.py alone, called again and again
SpecPost == InitF /\ [][PostNext]_vars

\* save_json and save_progress alone, with crashes during a save
SpecSave == InitF /\ [][SaveNext]_vars

\* forward_message of forward_once.py on one message of any shape
InitOnceMsg ==
    /\ InitSched /\ window = Minutes(1) /\ overlap = 0
    /\ InitFwdState /\ InitPost /\ InitSave
    /\ max_files_per_post \in FilesPerPostValues
    /\ \E m \in OnceMessages, dry_run \in BOOLEAN :
          once = [NoOnce EXCEPT !.pc = "call", !.m = m, !.dry_run = dry_run]
    /\ getf = NoGet
    /\ InitRun
SpecOnce == InitOnceMsg /\ [][OnceNext]_vars

\* get_file of forward_once.py alone, called again and again
SpecGet == InitF /\ [][GetNext]_vars

\* the scheduler with the forwarder as its child, invoked again and again;
\* every started step is taken in the end
InitC ==
    /\ InitSched /\ window = Minutes(2) /\ overlap \in {0, Minutes(1)}
    /\ InitFwd /\ InitPost /\ InitSave /\ InitOnce /\ InitRun
FairSpecComb == InitC /\ [][CombNext]_vars /\ WF_vars(CombNext)

\* one run of forward_loop.main from empty stores, on an artifact of up to
\* NormLen records in any order
NormArtifacts == UNION {[1..n -> Records] : n \in 0..NormLen}

NormStart(art) ==
    /\ FwdStartStep(art)
    /\ h_art' = art
    /\ UNCHANGED <<om, xo, xfs>>
    /\ UNCHANGED <<schedVars, postVars, saveVars, argVars, onceVars>>

NormNext ==
    \/ \E art \in NormArtifacts : NormStart(art)
    \/ FwdSkip
    \/ \E out \in PostOutcomes : FwdPrimary(out)
    \/ \E out \in PostOutcomes : FwdPart(out)
    \/ \E out \in PostOutcomes : FwdBatch(out)
    \/ FwdReturn
    \/ FwdExcept
    \/ FwdSaveState
    \/ FwdSaveMap

SpecNorm == InitF /\ [][NormNext]_vars

\* forward_once.main alone, run by hand again and again
SpecOnceMain == InitF /\ [][OnceMainNext]_vars

\* export_once.main with forward_once.main as its child, run again and
\* again
SpecExport == InitF /\ [][ExportNext]_vars

\* the model stops a run whose next window would start before tick 0
OutOfBounds == opc = "loop" /\ WindowAfter(last_before) < 0

----------------------------------------------------------------------------
(* Claims about orchestrate_one.main *)

\* C4: ProgressMarker never regresses: every value written to
\* last_before_iso is at or after the value persisted before it.
C4_MarkerNeverRegresses ==
    [][(progress_file # <<>> /\ progress_file' # <<>>)
         => fromisoformat(progress_file'[1])
              >= fromisoformat(progress_file[1])]_vars

\* C5: when the exporter or the forwarder exits nonzero, the persisted
\* checkpoint keeps the value it had before the window, no further window
\* is started in the invocation, an exporter failure runs no forwarder for
\* the window, and the next invocation starts from the same checkpoint.
C5_FailureKeepsCheckpoint ==
    /\ h_inv.aborted =>
          /\ opc \in {"end", "idle"}
          /\ progress_file = h_win.marker0
          /\ (h_win.failed = "export" => ~h_win.fwd)
    /\ (h_prev_abort # <<>> /\ opc = "loop") =>
          /\ progress_file = h_prev_abort[1]
          /\ (progress_file # <<>> =>
                last_before = fromisoformat(progress_file[1]))

\* C5 witness: an invocation that follows one aborted after an earlier
\* window had advanced the checkpoint
C5_Witness ==
    /\ opc = "loop"
    /\ h_prev_abort # <<>>
    /\ h_prev_abort[1] # <<>>

\* C6: an invocation that starts with the persisted checkpoint equal to the
\* target runs neither the exporter nor the forwarder.
C6_NoWorkWhenCaughtUp ==
    h_inv.caught_up => (~h_inv.exported /\ ~h_inv.forwarded)

\* C7: successive successfully executed windows have non-decreasing
\* `before` boundaries and each window starts no later than the previous
\* one ended.
C7_WindowCoverage ==
    h_cover.prev # <<>> =>
        /\ h_cover.cur[2] >= h_cover.prev[1]
        /\ h_cover.cur[1] <= h_cover.prev[1]

\* C8: the window loop terminates, and when every export and forward
\* succeeded the persisted checkpoint then equals the target.
C8_CatchUpTerminates ==
    (opc = "loop") ~>
        \/ /\ opc = "end"
           /\ h_inv.all_ok => progress_file = <<iso_z(target_before)>>
        \/ OutOfBounds

----------------------------------------------------------------------------
(* Claims about forward_loop.main and forward_one_message *)

\* C1: over runs that each run to completion, whatever the HTTP calls
\* answer, the destination accepts the primary post of a source message id
\* at most once in total.
C1_AtMostOnce ==
    \A id \in Ids : h_accepted[id] <= 1

\* C2: when a run is terminated between two steps and a new run forwards
\* the same artifact, no source message whose primary post was accepted
\* before the termination is posted again.
C2_NoRepostAfterTermination ==
    h_crash.rerun =>
        \A i \in DOMAIN reqs : reqs[i].src \notin h_crash.acc

\* C3: a run on an artifact whose ids are all in the loaded state sends no
\* POST and leaves the seen ids and the id map, in memory and on disk, as
\* they were loaded.
C3_Idempotence ==
    (fpc # "idle" /\ h_start.all_seen) =>
        /\ reqs = <<>>
        /\ seen = h_start.seen
        /\ id_map = h_start.map
        /\ state_file = h_start.seen
        /\ id_map_file = h_start.map

\* C3 witness: a completed run on an artifact that has messages, all of
\* them seen before
C3_Witness ==
    /\ fpc = "done"
    /\ h_start.all_seen
    /\ normalized # <<>>

\* the content has an injected quote or placeholder line
HasQuote(content) ==
    \E i \in DOMAIN content : content[i] \in {"Qp", "Qi", "Qu"}

\* C9: when the message's reply_to_id is a key of id_map, the primary
\* request carries message_reference {mapped id, fail_if_not_exists false}
\* and no quote line; and no request carries both a message_reference and
\* a quote line.
C9_ReplyPrecedence ==
    [][(fpc = "msg" /\ Len(reqs') = Len(reqs) + 1) =>
         LET m == normalized[pos]
             r == reqs'[Len(reqs')]
         IN /\ m.reply_to_id \in DOMAIN id_map =>
                 /\ r.message_reference
                      = message_reference(id_map[m.reply_to_id])
                 /\ ~HasQuote(r.content)
            /\ \A i \in DOMAIN reqs' :
                 ~(reqs'[i].message_reference # <<>>
                     /\ HasQuote(reqs'[i].content))]_vars

\* C9 witness: the primary post of a reply went out as a real reply
C9_Witness ==
    \E i \in DOMAIN reqs :
        /\ reqs[i].kind = "primary"
        /\ reqs[i].src \in {2, 3}
        /\ reqs[i].message_reference # <<>>
        /\ reqs[i].out = "ok"

\* normalized[j] is a reply to normalized[i], which has the earlier timestamp
ReplyPair(i, j) ==
    /\ normalized[j].reply_to_id = normalized[i].id
    /\ normalized[i].timestamp < normalized[j].timestamp

\* C10: starting from empty stores, when a parent and a reply to it are in
\* the artifact, the parent's timestamp earlier, and the parent's primary
\* post returned a destination id, the reply's primary post comes after the
\* parent's and carries a message_reference to exactly that id.
C10_ScenarioAThreading ==
    (fpc = "done" /\ h_start.seen = {} /\ h_start.map = EmptyMap) =>
        \A i, j \in DOMAIN normalized :
          \A p \in DOMAIN reqs :
            ( /\ ReplyPair(i, j)
              /\ reqs[p].kind = "primary"
              /\ reqs[p].src = normalized[i].id
              /\ reqs[p].out = "ok" )
            => \E c \in DOMAIN reqs :
                 /\ c > p
                 /\ reqs[c].kind = "primary"
                 /\ reqs[c].src = normalized[j].id
                 /\ reqs[c].message_reference
                      = message_reference(reqs[p].dest)

----------------------------------------------------------------------------
(* Claims about forward_one_message on one message *)

\* forward_one_message is running, or has just returned or raised, for
\* normalized[pos]
InFlight == fpc \in {"parts", "batches", "ret", "raised"}

\* the place in reqs of the primary post of the running forward_one_message
PrimaryIdx ==
    CHOOSE i \in DOMAIN reqs :
        /\ reqs[i].kind = "primary"
        /\ \A j \in DOMAIN reqs : reqs[j].kind = "primary" => j <= i

\* the places in reqs of the posts of the running forward_one_message
OwnReqs == {i \in DOMAIN reqs : i >= PrimaryIdx}

\* the attachment's size hint, probed size or fetched size is over the cap
OverCap(m, i) ==
    \/ m.attachments[i].size_hint > SizeCap
    \/ cur.heads[i] = "big"
    \/ cur.gets[i] = "big"

\* the attachment is one of the files of some post of the message
Uploaded(i) ==
    \E r \in OwnReqs : \E f \in DOMAIN reqs[r].files : reqs[r].files[f] = i

\* C11: an attachment whose size hint, probed size or fetched size is over
\* the cap is a file part of no post of the message, and every file part
\* that is uploaded was fetched with a size within the cap.
C11_SizeCapFiles ==
    InFlight =>
        LET m == normalized[pos]
        IN \A i \in DOMAIN m.attachments :
             /\ OverCap(m, i) => ~Uploaded(i)
             /\ Uploaded(i) => cur.gets[i] = "small"

\* C11 witness: of two attachments one was fetched over the cap and the
\* other was uploaded
C11_Witness ==
    /\ InFlight
    /\ \E i, j \in DOMAIN normalized[pos].attachments :
         /\ cur.gets[i] = "big"
         /\ Uploaded(j)

\* the attachment was demoted to link-only
Demoted(m, i) == OverCap(m, i) \/ cur.gets[i] = "fail"

\* the number of times the token is in the text
RECURSIVE Count(_, _)
Count(tok, text) ==
    IF text = <<>> THEN 0
    ELSE (IF Head(text) = tok THEN 1 ELSE 0) + Count(tok, Tail(text))

\* C12: for every attachment demoted to link-only, the primary post's text
\* has exactly one link line for it, whatever the length of the body.
C12_LinkLineInPrimary ==
    InFlight =>
        LET m == normalized[pos]
        IN \A i \in DOMAIN m.attachments :
             Demoted(m, i) =>
                 Count(LinkToken(i), reqs[PrimaryIdx].content) = 1

\* the text of the primary post and of the part posts of the running
\* forward_one_message from place i on, in emission order, the ' (part k)'
\* suffixes left out
RECURSIVE EmittedFrom(_)
EmittedFrom(i) ==
    IF i > Len(reqs) THEN <<>>
    ELSE (IF reqs[i].kind \in {"primary", "part"} THEN reqs[i].content
          ELSE <<>>) \o EmittedFrom(i + 1)

\* the header and the original body of the message
HeaderAndBody(m) ==
    IF UseQuote(m, id_map)
    THEN QuoteLine(m, id_index)
         \o (IF m.content # <<>> THEN <<"NL", "NL">> \o m.content ELSE <<>>)
    ELSE m.content

\* the link lines of the demoted attachments, on lines of their own
LinkSummary(m, before) ==
    LET links == SelectSeq(Indexes(Len(m.attachments)),
                           LAMBDA i : Demoted(m, i))
    IN IF links = <<>> THEN <<>>
       ELSE (IF before # <<>> THEN <<"NL">> ELSE <<>>) \o links_text(links)

\* the text the posts of the message are to carry: header, body, link
\* lines, or the placeholder for a message with no text at all
ExpectedText(m) ==
    LET text == HeaderAndBody(m) \o LinkSummary(m, HeaderAndBody(m))
    IN IF strip(text) = <<>> /\ ~m.embeds /\ m.attachments = <<>>
       THEN <<"[no text]">>
       ELSE text

\* C13: when forward_one_message returns, the texts of its primary post and
\* part posts, concatenated in emission order without the part suffixes,
\* are the message's header and original body exactly.
C13_ChunkingFidelity ==
    fpc = "ret" => EmittedFrom(PrimaryIdx) = ExpectedText(normalized[pos])

\* the last destination id obtained by the posts of the message before
\* place i (0: none)
RECURSIVE LastId(_)
LastId(i) ==
    IF i <= PrimaryIdx THEN 0
    ELSE IF reqs[i - 1].dest # 0 THEN reqs[i - 1].dest
    ELSE LastId(i - 1)

\* C14: the segments after the first are posted in order, segment k
\* labelled k and carrying a message_reference to the id the post of
\* segment k-1 returned, or to the most recent id obtained if that post
\* returned none.
C14_ChainedParts ==
    InFlight =>
        /\ \A i \in OwnReqs :
             reqs[i].kind = "part" =>
                 LET k == i - PrimaryIdx + 1
                 IN /\ reqs[i].label = k
                    /\ k \in 2..Len(cur.chunks)
                    /\ reqs[i].content = cur.chunks[k]
                    /\ reqs[i].message_reference =
                         IF LastId(i) # 0 THEN message_reference(LastId(i))
                         ELSE <<>>
        /\ fpc \in {"batches", "ret"} =>
             \A k \in 2..Len(cur.chunks) :
                 reqs[PrimaryIdx + k - 1].kind = "part"

\* C14 witness: three segments; the post of the second returned no id and
\* the third refers to the primary post
C14_Witness ==
    /\ fpc = "ret"
    /\ Len(cur.chunks) = 3
    /\ reqs[PrimaryIdx].out = "ok"
    /\ reqs[PrimaryIdx + 1].out = "err"
    /\ reqs[PrimaryIdx + 2].message_reference
         = message_reference(reqs[PrimaryIdx].dest)

RECURSIVE Flat(_)
Flat(ss) == IF ss = <<>> THEN <<>> ELSE Head(ss) \o Flat(Tail(ss))

\* the attachment is in a batch that is still to be posted
Pending(i) ==
    \E b \in DOMAIN cur.rest :
        \E f \in DOMAIN cur.rest[b] : cur.rest[b][f] = i

\* C17: an attachment whose fetch failed is link-only, the primary post is
\* emitted all the same, the other attachments are handled as usual, and an
\* exception leaves forward_one_message only when a POST raised.
C17_FetchFailureNotFatal ==
    InFlight =>
        LET m == normalized[pos]
        IN /\ reqs[PrimaryIdx].src = m.id
           /\ \A i \in DOMAIN m.attachments :
                /\ cur.gets[i] = "fail" =>
                     /\ ~Uploaded(i) /\ ~Pending(i)
                     /\ Count(LinkToken(i), Flat(cur.chunks)) = 1
                /\ cur.gets[i] = "small" => Uploaded(i) \/ Pending(i)
           /\ fpc = "raised" => reqs[Len(reqs)].out = "exc"

\* C17 witness: the fetch of the first attachment failed and the second
\* was uploaded with the primary post, which was accepted
C17_Witness ==
    /\ fpc = "ret"
    /\ Len(cur.gets) = 2
    /\ cur.gets[1] = "fail"
    /\ cur.gets[2] = "small"
    /\ reqs[PrimaryIdx].files = <<2>>
    /\ reqs[PrimaryIdx].out = "ok"

\* the header line that is neither a quote of the preview nor of the batch
EarlierMessagePlaceholder == "(replying to an earlier message)"

\* the header of a reply whose parent has no destination id: the preview's
\* quote, else the quote of the parent in the batch, else the placeholder
FallbackHeader(m, index) ==
    IF m.reply_preview THEN "Qp"
    ELSE IF m.reply_to_id \in index THEN "Qi"
    ELSE EarlierMessagePlaceholder

HeaderTokens == {"Qp", "Qi", "Qu", EarlierMessagePlaceholder}

\* the number of header lines in the text
RECURSIVE Headers(_)
Headers(text) ==
    IF text = <<>> THEN 0
    ELSE (IF Head(text) \in HeaderTokens THEN 1 ELSE 0) + Headers(Tail(text))

\* C24: for a reply whose parent id is not in the id map, the text begins
\* with exactly one header: the quote built from the preview when there is
\* one, else the quote built from the parent's entry in the index of the
\* batch when it is there, else "(replying to an earlier message)".
C24_ReplyFallbackOrder ==
    (InFlight /\ UseQuote(normalized[pos], id_map)) =>
        /\ reqs[PrimaryIdx].content[1]
             = FallbackHeader(normalized[pos], id_index)
        /\ Headers(Flat(cur.chunks)) = 1

\* C25: an attachment without a size hint whose HEAD failed or gave a
\* non-success status is link-only and no GET is made for it.
C25_ConservativeProbe ==
    InFlight =>
        LET m == normalized[pos]
        IN \A i \in DOMAIN m.attachments :
             cur.heads[i] = "fail" =>
                 /\ cur.gets[i] = "none"
                 /\ ~Uploaded(i) /\ ~Pending(i)
                 /\ Count(LinkToken(i), Flat(cur.chunks)) = 1

\* the destination's limit of files in one post (line 389)
PlatformCeiling == 10

\* C26: whatever integer --max-files-per-post is, a post carries at most
\* PlatformCeiling files and at most the configured number, and
\* forward_one_message raises only when a POST raised, never because of
\* the configured value.
C26_FilesPerPostCeiling ==
    InFlight =>
        /\ \A r \in OwnReqs :
              reqs[r].files # <<>> =>
                  /\ Len(reqs[r].files) <= PlatformCeiling
                  /\ Len(reqs[r].files) <= max_files_per_post
        /\ fpc = "raised" => reqs[Len(reqs)].out = "exc"

\* the files of the posts of the running forward_one_message from place i
\* on, in emission order
RECURSIVE FilesFrom(_)
FilesFrom(i) ==
    IF i > Len(reqs) THEN <<>> ELSE reqs[i].files \o FilesFrom(i + 1)

\* the re-upload candidates of the message, in attachment order
Candidates(m) ==
    SelectSeq(Indexes(Len(m.attachments)), LAMBDA i : cur.gets[i] = "small")

\* C27: when forward_one_message is over and all its posts succeeded, the
\* files of the primary post and then of the batch posts are the re-upload
\* candidates, each once, in attachment order; batch post number n is
\* labelled n and refers to the id the primary post returned.
C27_AttachmentBatching ==
    (fpc \in {"ret", "raised"} /\ \A r \in OwnReqs : reqs[r].out = "ok") =>
        /\ FilesFrom(PrimaryIdx) = Candidates(normalized[pos])
        /\ \A r \in OwnReqs :
              reqs[r].kind = "batch" =>
                  /\ reqs[r].label
                       = Cardinality({j \in OwnReqs :
                                        j <= r /\ reqs[j].kind = "batch"})
                  /\ reqs[r].message_reference
                       = message_reference(reqs[PrimaryIdx].dest)

\* the message has nothing to post: no text but blanks in header and body,
\* no embeds, no re-upload candidates, no link-only attachments
NothingToPost(m) ==
    /\ strip(HeaderAndBody(m)) = <<>>
    /\ ~m.embeds
    /\ Candidates(m) = <<>>
    /\ \A i \in DOMAIN m.attachments : ~Demoted(m, i)

\* C29: no primary post has an empty text, no embeds and no files; the
\* primary text is "[no text]" exactly when the message has no text, no
\* embeds, no re-upload candidates and no link-only attachments, so that
\* no segment of a message that has text is replaced.
C29_EmptyMessagePlaceholder ==
    InFlight =>
        LET m == normalized[pos]
            r == reqs[PrimaryIdx]
        IN /\ ~(r.content = <<>> /\ ~m.embeds /\ r.files = <<>>)
           /\ (r.content = <<"[no text]">>) <=> NothingToPost(m)

----------------------------------------------------------------------------
(* Claims about the stores of forward_loop.main *)

\* C19: over completed runs, an id in state.json stays in it, and an entry
\* of id_map.json stays in it with the same destination id.
C19_StoresOnlyGrow ==
    [][/\ state_file \subseteq state_file'
       /\ \A k \in DOMAIN id_map_file :
            /\ k \in DOMAIN id_map_file'
            /\ id_map_file'[k] = id_map_file[k]]_vars

\* C19 witness: a completed run that loaded a non-empty id map and saved
\* a larger one
C19_Witness ==
    /\ fpc = "done"
    /\ h_start.map # EmptyMap
    /\ id_map_file # h_start.map
    /\ state_file # h_start.seen

\* C20: at the end of the run, every message whose primary post succeeded
\* is in state.json and has its mapping in id_map.json, whatever happened
\* to its later part posts and attachment batches.
C20_MarkedAfterPrimary ==
    fpc = "done" =>
        \A i \in DOMAIN reqs :
            (reqs[i].kind = "primary" /\ reqs[i].out = "ok") =>
                /\ reqs[i].src \in state_file
                /\ reqs[i].src \in DOMAIN id_map_file

----------------------------------------------------------------------------
(* Claims about post_webhook of forward_once.py *)

\* C15: whatever the POSTs give, post_webhook has returned or raised after
\* at most 9 POST attempts.
C15_BoundedPostAttempts ==
    /\ Len(plog) <= 9
    /\ Len(plog) = 9 => ppc \in {"returned", "raised"}

\* C15 witness: a call that ended with its ninth attempt
C15_Witness ==
    /\ ppc = "returned"
    /\ Len(plog) = 9

\* C16: post_webhook returns the last response when it gives up on a 429
\* or a 5xx, raises only on a transport failure after the retries, and
\* returns a response that is neither 429 nor 5xx at once, never retrying
\* it.
C16_PostOutcome ==
    /\ ppc = "returned" =>
          /\ plog[Len(plog)] # NoResponse
          /\ presult = <<plog[Len(plog)]>>
    /\ ppc = "raised" =>
          /\ plog[Len(plog)] = NoResponse
          /\ Len(plog) > 5
    /\ \A i \in DOMAIN plog :
          (plog[i] # NoResponse /\ plog[i] # 429
             /\ ~(500 <= plog[i] /\ plog[i] < 600)) =>
              /\ i = Len(plog)
              /\ ppc = "returned"

\* C16 witness: a call that gave up on a 5xx and returned it
C16_Witness ==
    /\ ppc = "returned"
    /\ Len(plog) = 6
    /\ presult = <<503>>

----------------------------------------------------------------------------
(* Claims about save_json and save_progress *)

\* C18: whenever the process may crash during a save, and after it did,
\* the file at the path holds the complete previous content or the
\* complete new content, never a partial or empty one.
C18_AtomicPersistence ==
    /\ fs[wpath] \in {h_old, Whole(wdata)}
    /\ \A path \in Paths :
          fs[path] # NoFile => fs[path][1].pieces = Pieces

\* C18 witness: a crash during a save over an earlier version, with the
\* temporary file partly written
C18_Witness ==
    /\ wpc = "crashed"
    /\ h_old # NoFile
    /\ fs[wpath] = h_old
    /\ fs[TmpOf(wpath)] # NoFile
    /\ fs[TmpOf(wpath)][1].pieces < Pieces
    /\ fs[TmpOf(wpath)][1].data # h_old[1].data

----------------------------------------------------------------------------
(* Claims about the loop of forward_loop.main *)

\* the place in reqs of the last post of the forward_one_message call whose
\* primary post is at place p
CallEnd(p) ==
    CHOOSE e \in p..Len(reqs) :
        /\ \A j \in (p + 1)..e : reqs[j].kind # "primary"
        /\ e = Len(reqs) \/ reqs[e + 1].kind = "primary"

\* a forward_one_message call for the id has returned in this run
ReturnedFor(id) ==
    \E p \in DOMAIN reqs :
        /\ reqs[p].kind = "primary"
        /\ reqs[p].src = id
        /\ reqs[CallEnd(p)].out # "exc"
        /\ CallEnd(p) = Len(reqs) => fpc \notin {"parts", "batches", "ret"}

\* forward_one_message was called for the id in this run
AttemptedFor(id) ==
    \E p \in DOMAIN reqs : reqs[p].kind = "primary" /\ reqs[p].src = id

\* C21: an id enters the seen ids or the id map during a run only through
\* a forward_one_message call that returned, never through one that raised;
\* the run goes on after an exception: every message before the loop's
\* position was in the loaded seen ids or was passed to forward_one_message,
\* and the stores are written only after the last message.
C21_MessageLocalFailure ==
    /\ \A id \in (seen \ h_start.seen)
                  \cup (DOMAIN id_map \ DOMAIN h_start.map) :
          ReturnedFor(id)
    /\ \A i \in 1..(pos - 1) :
          normalized[i].id \in h_start.seen \/ AttemptedFor(normalized[i].id)
    /\ fpc \in {"save_map", "done"} => pos > Len(normalized)

\* C21 witness: a completed run in which the processing of the first
\* message raised and the second message was forwarded and marked
C21_Witness ==
    /\ fpc = "done"
    /\ Len(normalized) = 2
    /\ normalized[1].id # normalized[2].id
    /\ reqs[CallEnd(1)].out = "exc"
    /\ normalized[1].id \notin state_file
    /\ normalized[1].id \notin DOMAIN id_map_file
    /\ reqs[Len(reqs)].src = normalized[2].id
    /\ reqs[Len(reqs)].out = "ok"
    /\ normalized[2].id \in state_file

\* C23: an id is in the seen ids at the end of a run only if it was loaded
\* with them or its primary post was accepted in the run; a message whose
\* primary post got an error response, or a response without an id, is not
\* marked.
C23_SeenOnlyForwarded ==
    fpc \in {"save_map", "done"} =>
        \A id \in state_file \ h_start.seen :
            \E i \in DOMAIN reqs :
                /\ reqs[i].kind = "primary"
                /\ reqs[i].src = id
                /\ reqs[i].out = "ok"

----------------------------------------------------------------------------
(* Claims about the scheduler and the forwarder together *)

\* C22: when forward_one_message raised for a message, and the exports and
\* the HTTP calls succeed from then on, repeated invocations of the
\* scheduler lead to a window in which the message is forwarded and marked.
C22_FailedMessageRetried ==
    (fpc = "raised" /\ normalized[pos].id = ChannelRecord.id)
        ~> (ChannelRecord.id \in state_file)

----------------------------------------------------------------------------
(* Claims about forward_message of forward_once.py *)

\* C28: every post forward_message makes (primary, attachment batch, part)
\* has a text of at most DiscordCap characters, whatever the length of the
\* body and the number of link-only attachments.
C28_TextCap ==
    \A p \in DOMAIN once.posted : once.posted[p].len <= DiscordCap

----------------------------------------------------------------------------
(* Claims about get_file of forward_once.py *)

\* C30: whatever the GETs give, a server that answers 429 every time
\* included, get_file has returned after at most 5 attempts; it returns
\* what the last attempt gave, a response or None, and never raises.
C30_BoundedFetch ==
    /\ getf.pc \in {"idle", "loop", "returned"}
    /\ Len(getf.log) <= 5
    /\ Len(getf.log) = 5 => getf.pc = "returned"
    /\ getf.pc = "returned" => getf.result = <<getf.log[Len(getf.log)]>>

\* C30 witness: a call that gave up after five 429 answers and returned
\* the last of them
C30_Witness ==
    /\ getf.pc = "returned"
    /\ getf.log = <<429, 429, 429, 429, 429>>
    /\ getf.result = <<429>>

----------------------------------------------------------------------------
(* Claims about what forward_loop.main leaves on disk *)

\* the for loop of lines 428-449 has not yet taken the last message
LoopRunning ==
    \/ fpc \in {"parts", "batches", "ret", "raised"}
    \/ fpc = "msg" /\ pos <= Len(normalized)

\* C31: during a run of forward_loop.main, state.json and id_map.json are
\* not modified until every message of the artifact has been processed:
\* while the loop runs, both files are as they were when the run loaded
\* them, and no step taken then, a termination of the process included,
\* changes either file.
C31_NoPartialState ==
    [][LoopRunning =>
         /\ state_file = h_start.seen
         /\ id_map_file = h_start.map
         /\ state_file' = state_file
         /\ id_map_file' = id_map_file]_vars

\* C31 witness: the process was terminated after the destination had
\* accepted a post of a run that started with files left by an earlier
\* run, and the files hold nothing of the terminated run
C31_Witness ==
    /\ h_crash.valid
    /\ h_crash.acc # {}
    /\ state_file # {}
    /\ h_crash.acc \cap state_file = {}

\* C34: starting from empty stores, at every instant, a termination
\* between the two writes that end a run included, every key of
\* id_map.json is a key of the seen_ids of state.json.
C34_MapKeysAreSeen ==
    DOMAIN id_map_file \subseteq state_file

\* C34 witness: a run was terminated between its two writes: an id whose
\* primary post it had accepted is in state.json and not in id_map.json
C34_Witness ==
    /\ h_crash.valid
    /\ \E id \in h_crash.acc :
          id \in state_file /\ id \notin DOMAIN id_map_file

----------------------------------------------------------------------------
(* Claims about the order in which forward_loop.main forwards *)

\* the sort key of the record of the artifact that has the id
KeyOf(id) ==
    LET r == CHOOSE r \in {h_art[k] : k \in DOMAIN h_art} : r.id = id
    IN <<r.timestamp, r.id>>

\* C32: forward_loop.main forwards the records of an artifact in ascending
\* (timestamp, id) order whatever their order in the artifact; a record
\* with no id is skipped, and the run goes on to its end, where every
\* record that has an id was passed to forward_one_message or was in the
\* loaded seen ids.
C32_NormalizerOrdering ==
    /\ \A i, j \in DOMAIN reqs :
          (i < j /\ reqs[i].kind = "primary" /\ reqs[j].kind = "primary") =>
              \/ KeyOf(reqs[i].src)[1] < KeyOf(reqs[j].src)[1]
              \/ /\ KeyOf(reqs[i].src)[1] = KeyOf(reqs[j].src)[1]
                 /\ reqs[i].src <= reqs[j].src
    /\ \A i \in DOMAIN reqs : reqs[i].src # 0
    /\ fpc = "done" =>
          \A k \in DOMAIN h_art :
              h_art[k].id # 0 =>
                  \/ h_art[k].id \in h_start.seen
                  \/ AttemptedFor(h_art[k].id)

\* C32 witness: a completed run on an artifact of three records, the
\* latest first, then a record with no id, then the earliest; both
\* records that have an id were forwarded, the earliest first
C32_Witness ==
    /\ fpc = "done"
    /\ Len(h_art) = 3
    /\ h_art[1].id = 3
    /\ h_art[2].id = 0
    /\ h_art[3].id = 1
    /\ reqs[1].src = 1
    /\ reqs[Len(reqs)].src = 3
    /\ reqs[Len(reqs)].out = "ok"

----------------------------------------------------------------------------
(* Claims about the export files orchestrate_one.main keeps *)

\* C33: a window that completes advances the checkpoint and goes on to the
\* next window or to the end of the loop whether or not an unlink raised,
\* and when none raised it leaves min(Retention, n) of the n export files
\* that were there.
C33_ArtifactRetention ==
    [][(opc = "forward" /\ opc' # "forward" /\ h_win'.failed = "no") =>
         /\ progress_file' = <<iso_z(before_dt)>>
         /\ opc' = IF CaughtUp(before_dt) THEN "end" ELSE "loop"
         /\ h_win'.stuck = 0 => artifacts' = Min(Retention, artifacts)]_vars

----------------------------------------------------------------------------
(* Claims about forward_once.main and export_once.main *)

\* the forward_message calls of the run whose first post was accepted
AcceptedCalls(id) ==
    {k \in DOMAIN om.calls : om.calls[k].id = id /\ om.calls[k].out = "ok"}

\* C35: during a run of forward_once.main the destination accepts the
\* first post of a source id at most once, however many records of the
\* artifact have the id.
C35_OnceDuplicateIds ==
    \A id \in LogIds : Cardinality(AcceptedCalls(id)) <= 1

\* C36: a run of export_once.main with --dry-run sends no post and leaves
\* the checkpoint and both stores as they were when it began; and a real
\* run that follows a completed dry run, with the same --since and at the
\* same time, calls forward_message for exactly the messages the dry run
\* reported.
C36_DryRunSideEffectFree ==
    /\ (xo.pc # "idle" /\ xo.dry_run) =>
          /\ StateFiles = xo.files0[1]
          /\ \A k \in DOMAIN om.calls : om.calls[k].out = "dry"
    /\ ( /\ xo.pc = "forward" /\ om.pc = "done" /\ ~xo.dry_run
         /\ xo.prev # <<>> ) =>
          \/ ~xo.prev[1].ok
          \/ ~xo.prev[1].dry
          \/ xo.prev[1].now # xo.now
          \/ xo.prev[1].since_arg # xo.since_arg
          \/ CalledIds(om.calls) = xo.prev[1].reported

=============================================================================
